---- MODULE Spec2Model ----
(***************************************************************************)
(* Model of WebRTCService (src/unnamed/part_001, the class that starts at  *)
(* line 694): the chunked file transfer over a data channel (sendFile,     *)
(* handleDataChannelMessage, reassembleFile) and the per-peer signaling    *)
(* state machine (createPeerConnection, handleOffer, handleAnswer,         *)
(* handleIceCandidate, applyPending*, closePeerConnection).                *)
(*                                                                         *)
(* JavaScript strings are sequences of code points, ArrayBuffers are       *)
(* sequences of bytes (0..255).  Callbacks are assumed registered          *)
(* (RoomPage calls setCallbacks before anything else); every call of one   *)
(* is appended to the log "events".                                        *)
(***************************************************************************)
EXTENDS Integers, Sequences, FiniteSets, TLC

VARIABLES
    \* ---- fields of WebRTCService (constructor, lines 695-720)
    fileChunks,        \* this.fileChunks: fileId -> array of chunk records
    dataChannels,      \* this.dataChannels: peerId -> readyState of the channel
    \* ---- the running sendFile call and what it handed to each channel
    send,              \* locals of the pending sendFile call and where it is
    chanOut,           \* peerId -> messages passed to dataChannel.send, in order
    \* ---- timers and callbacks
    rxTimers,          \* files whose onFileReceived is scheduled (setTimeout 100)
    events,            \* every callback invocation, in order
    \* ---- the remote end of the data channel
    remote,            \* the transfer a remote peer is sending to this client
    rxLog,             \* every message handed to handleDataChannelMessage
    \* ---- signaling (constructor, lines 696-717)
    socket,            \* this.socket: "null", or the WebSocket's readyState
    roomId,            \* this.roomId ("" for null)
    peerConnections,   \* this.peerConnections: peerId -> RTCPeerConnection
    pendingRemoteDescriptions,  \* peerId -> the queued remote description
    pendingIceCandidates,       \* peerId -> the queued remote candidates
    resetTimers,       \* peerId -> pending timers of resetConnection
    sigOut,            \* every message passed to socket.send, in order
    pcCount,           \* RTCPeerConnections constructed so far
    sigIn,             \* what the signaling server and the network did so far
    \* ---- the room calls and the sockets (lines 735-849)
    peerId,            \* this.peerId ("" for null)
    room,              \* the createRoom / joinRoom calls and what they left in
                       \* this.pendingCreateRoom, this.createRoomTimeout, ...
    sockets            \* the WebSockets constructed so far

clientVars == <<peerId, room, sockets>>

sigVars == <<socket, roomId, peerConnections, pendingRemoteDescriptions,
             pendingIceCandidates, resetTimers, sigOut, pcCount, sigIn, clientVars>>

vars == <<fileChunks, dataChannels, send, chanOut, rxTimers, events, remote, rxLog,
          sigVars>>

(***************************************************************************)
(* Bounds of the model.                                                    *)
(***************************************************************************)
\* Stand-in for the 64 * 1024 of line 1693, scaled so that files of a few
\* bytes span several chunks.
chunkSize == 2
\* Files have 0..MaxFileLen bytes: lengths 0, 1, C, C+1 and 2C+1.
MaxFileLen == 5
\* Messages beyond the transfer's own (a resent one, or a foreign frame) that
\* the data channel hands to the receiver in one run.
MaxExtra == 1

Min(a, b) == IF a < b THEN a ELSE b

(***************************************************************************)
(* Platform primitives, as the code uses them.                             *)
(***************************************************************************)
\* ArrayBuffer.prototype.slice(start, end): both ends clamped to the length.
slice(data, start, end) ==
    LET s == Min(start, Len(data))
        e == Min(end, Len(data))
    IN  IF e <= s THEN <<>> ELSE SubSeq(data, s + 1, e)

\* One byte of a buffer, 0-based.
byteAt(buf, i) == IF i + 1 \in DOMAIN buf THEN buf[i + 1] ELSE 0

\* A DataView that reads whatever the offset: bytes past the end read as 0.
DataViewInRange_unchecked(buf, off, n) == TRUE

\* DataView reads throw a RangeError unless offset + size fits in the view.
DataViewInRange(buf, off, n) == off + n <= Len(buf)

\* DataView.getUint32(off, true): little-endian.
getUint32(buf, off) ==
    byteAt(buf, off) + 256 * byteAt(buf, off + 1)
        + 65536 * byteAt(buf, off + 2) + 16777216 * byteAt(buf, off + 3)

\* DataView.setUint32(off, v, true), as the four bytes written.
setUint32(v) ==
    <<v % 256, (v \div 256) % 256, (v \div 65536) % 256, (v \div 16777216) % 256>>

\* DataView.setBigUint64(0, BigInt(v), true).  Sizes in the model are below
\* 2^31, so the high word is zero.
setBigUint64(v) == setUint32(v) \o <<0, 0, 0, 0>>

\* Number(DataView.getBigUint64(0, true)) for values whose high word is zero.
getBigUint64(buf, off) == getUint32(buf, off)

\* TextEncoder.encode: UTF-8 of code points below 2048 (one or two bytes).
RECURSIVE TextEncode(_)
TextEncode(str) ==
    IF str = <<>> THEN <<>>
    ELSE LET c == Head(str)
         IN  (IF c < 128 THEN <<c>> ELSE <<192 + (c \div 64), 128 + (c % 64)>>)
                 \o TextEncode(Tail(str))

\* TextDecoder.decode (not fatal): one- and two-byte sequences; any other byte
\* becomes U+FFFD.
RECURSIVE TextDecode(_)
TextDecode(bytes) ==
    IF bytes = <<>> THEN <<>>
    ELSE LET b == Head(bytes)
         IN  IF b < 128 THEN <<b>> \o TextDecode(Tail(bytes))
             ELSE IF b >= 194 /\ b < 224 /\ Len(bytes) >= 2
                       /\ bytes[2] >= 128 /\ bytes[2] < 192
                  THEN <<(b - 192) * 64 + (bytes[2] - 128)>>
                           \o TextDecode(Tail(Tail(bytes)))
                  ELSE <<65533>> \o TextDecode(Tail(bytes))

\* String.prototype.padEnd(n, "\0").
padEnd(str, n) ==
    IF Len(str) >= n THEN str ELSE str \o [k \in 1..(n - Len(str)) |-> 0]


(***************************************************************************)
(* Files and transfer ids.                                                 *)
(***************************************************************************)
\* uuidv4() (line 1683): 36 characters, xxxxxxxx-xxxx-4xxx-yxxx-xxxxxxxxxxxx.
\* The n-th id of the model has the hex digit n in every free position.
uuidv4(n) ==
    [k \in 1..36 |->
        IF k \in {9, 14, 19, 24} THEN 45
        ELSE IF k = 15 THEN 52
        ELSE IF k = 20 THEN 97
        ELSE 48 + n]

\* A transfer id of exactly 16 characters, as a peer that is not this code may
\* put in its file-start, chunk frames and file-end.
id16 == [k \in 1..16 |-> 102]

\* The File objects handed to sendFile: name "aé" (three bytes of UTF-8),
\* type "t", bytes 1, 2, ..., n.
FileOfLen(n) == [name |-> <<97, 233>>, type |-> <<116>>, bytes |-> [k \in 1..n |-> k]]
Files == {FileOfLen(n) : n \in 0..MaxFileLen}

(***************************************************************************)
(* sendFile: what it computes (lines 1692-1809, 1839-1852).                *)
(***************************************************************************)
\* Math.floor in place of Math.ceil: the short last chunk is never sent.
ceilDiv_floor(n, cs) == n \div cs

\* Math.ceil(byteLength / chunkSize), line 1696.
ceilDiv(n, cs) == (n + cs - 1) \div cs

\* Lines 1728-1729: the slice of the file that chunk i carries.
chunkStart(i, cs) == i * cs
chunkEnd(i, n, cs) == Min(chunkStart(i, cs) + cs, n)

totalChunksOf(file) == ceilDiv(Len(file.bytes), chunkSize)

\* The id field is left blank.
fileIdField_blank(fileId) == slice(TextEncode(padEnd(<<>>, 16)), 0, 16)

\* Lines 1733-1735: the 16-byte id field of a frame.
fileIdField(fileId) == slice(TextEncode(padEnd(fileId, 16)), 0, 16)

\* Lines 1737-1809: header, file name, type, size and payload in one buffer.
frameBytes(fileIdBytes, i, totalChunks, fileNameBytes, fileTypeBytes, fileSize, chunk) ==
    fileIdBytes \o setUint32(i) \o setUint32(totalChunks) \o setUint32(Len(fileNameBytes))
        \o fileNameBytes \o setUint32(Len(fileTypeBytes)) \o fileTypeBytes
        \o setBigUint64(fileSize) \o chunk

\* The frame declares the size of its own payload.
chunkFrame_payloadSize(file, fileId, i) ==
    [kind  |-> "binary",
     bytes |-> frameBytes(fileIdField(fileId), i, totalChunksOf(file),
                   TextEncode(file.name), TextEncode(file.type),
                   chunkEnd(i, Len(file.bytes), chunkSize) - chunkStart(i, chunkSize),
                   slice(file.bytes, chunkStart(i, chunkSize),
                         chunkEnd(i, Len(file.bytes), chunkSize)))]

\* Lines 1726-1809: the frame of chunk i.
chunkFrame(file, fileId, i) ==
    [kind  |-> "binary",
     bytes |-> frameBytes(fileIdField(fileId), i, totalChunksOf(file),
                   TextEncode(file.name), TextEncode(file.type), Len(file.bytes),
                   slice(file.bytes, chunkStart(i, chunkSize),
                         chunkEnd(i, Len(file.bytes), chunkSize)))]

\* Lines 1707-1716.
fileStartMsg(file, fileId) ==
    [kind |-> "string", type |-> "file-start", fileId |-> fileId,
     fileName |-> file.name, fileType |-> file.type,
     fileSize |-> Len(file.bytes), totalChunks |-> totalChunksOf(file)]

\* Lines 1845-1852.
fileEndMsg(file, fileId) ==
    [kind |-> "string", type |-> "file-end", fileId |-> fileId,
     fileName |-> file.name, fileType |-> file.type]

\* Everything one sendFile call passes to a channel that stays open: file-start,
\* the frames 0..totalChunks-1, file-end.
sendFileMessages(file, fileId) ==
    <<fileStartMsg(file, fileId)>>
        \o [i \in 1..totalChunksOf(file) |-> chunkFrame(file, fileId, i - 1)]
        \o <<fileEndMsg(file, fileId)>>

(***************************************************************************)
(* The receiver: handleDataChannelMessage and reassembleFile.  The state   *)
(* they touch is passed as a record st = [fc, timers, ev]: this.fileChunks,*)
(* the scheduled onFileReceived calls and the callback log.                *)
(***************************************************************************)
Event(cb, arg) == [cb |-> cb, arg |-> arg]

\* Lines 1290-1323: the fields of a frame, read front to back; a DataView read
\* throws a RangeError when the (clamped) slice it reads from is too short.
\* Lines 1318-1323: the declared file size and the payload.
decodeFileSize(data, fileId, currentChunk, totalChunks, fileName, fileType, fileSizeStartByte) ==
    IF ~DataViewInRange(slice(data, fileSizeStartByte, fileSizeStartByte + 8), 0, 8)
    THEN [ok |-> FALSE]
    ELSE [ok |-> TRUE,
          chunk |-> [id |-> fileId, name |-> fileName, type |-> fileType,
                     size |-> getBigUint64(slice(data, fileSizeStartByte,
                                                 fileSizeStartByte + 8), 0),
                     totalChunks |-> totalChunks,
                     currentChunk |-> currentChunk,
                     data |-> slice(data, fileSizeStartByte + 8, Len(data))]]

\* Lines 1309-1316: the file type, fileTypeLengthBytes bytes after its length.
decodeFileType(data, fileId, currentChunk, totalChunks, fileName, fileTypeStartByte,
               fileTypeLengthBytes) ==
    decodeFileSize(data, fileId, currentChunk, totalChunks, fileName,
        TextDecode(slice(data, fileTypeStartByte + 4,
                         fileTypeStartByte + 4 + fileTypeLengthBytes)),
        fileTypeStartByte + 4 + fileTypeLengthBytes)

\* Lines 1299-1308: the file name, and the length of the file type after it.
decodeFileName(data, fileId, currentChunk, totalChunks, fileNameLengthBytes) ==
    IF ~DataViewInRange(slice(data, 28 + fileNameLengthBytes,
                              28 + fileNameLengthBytes + 4), 0, 4)
    THEN [ok |-> FALSE]
    ELSE decodeFileType(data, fileId, currentChunk, totalChunks,
             TextDecode(slice(data, 28, 28 + fileNameLengthBytes)),
             28 + fileNameLengthBytes,
             getUint32(slice(data, 28 + fileNameLengthBytes,
                             28 + fileNameLengthBytes + 4), 0))

\* Lines 1290-1297: the 28-byte header.
decodeChunk(data) ==
    IF ~(/\ DataViewInRange(slice(data, 0, 28), 16, 4)
         /\ DataViewInRange(slice(data, 0, 28), 20, 4)
         /\ DataViewInRange(slice(data, 0, 28), 24, 4))
    THEN [ok |-> FALSE]
    ELSE decodeFileName(data, TextDecode(slice(data, 0, 16)),
             getUint32(slice(data, 0, 28), 16),
             getUint32(slice(data, 0, 28), 20),
             getUint32(slice(data, 0, 28), 24))

\* Line 1392: chunks.sort((a, b) => a.currentChunk - b.currentChunk), a stable
\* sort in place.
RECURSIVE insertChunk(_, _)
insertChunk(c, sorted) ==
    IF sorted = <<>> THEN <<c>>
    ELSE IF sorted[Len(sorted)].currentChunk <= c.currentChunk THEN Append(sorted, c)
    ELSE Append(insertChunk(c, SubSeq(sorted, 1, Len(sorted) - 1)), sorted[Len(sorted)])

RECURSIVE sortFrom(_, _)
sortFrom(chunks, sorted) ==
    IF chunks = <<>> THEN sorted
    ELSE sortFrom(Tail(chunks), insertChunk(Head(chunks), sorted))

\* No sort: the chunks stay in arrival order.
sortChunks_arrival(chunks) == chunks

sortChunks(chunks) == sortFrom(chunks, <<>>)

\* Lines 1403-1408: fileBuffer.set(chunkData, offset) for each chunk in turn.
\* TypedArray.set throws a RangeError when the source does not fit.
RECURSIVE copyChunks(_, _, _)
copyChunks(fileBuffer, chunks, offset) ==
    IF chunks = <<>> THEN [ok |-> TRUE, buffer |-> fileBuffer, offset |-> offset]
    ELSE LET chunkData == Head(chunks).data
         IN  IF offset + Len(chunkData) > Len(fileBuffer)
             THEN [ok |-> FALSE, buffer |-> fileBuffer, offset |-> offset]
             ELSE copyChunks(
                      [k \in 1..Len(fileBuffer) |->
                          IF k > offset /\ k <= offset + Len(chunkData)
                          THEN chunkData[k - offset] ELSE fileBuffer[k]],
                      Tail(chunks), offset + Len(chunkData))

\* The buffer of a reassembled transfer is kept.
deleteKey_keep(map, key) == map

\* Line 1462: delete this.fileChunks[fileId].
deleteKey(map, key) == [k \in DOMAIN map \ {key} |-> map[k]]

\* this.fileChunks[fileId] = value.
setKey(map, key, value) ==
    [k \in DOMAIN map \cup {key} |-> IF k = key THEN value ELSE map[k]]

\* Lines 1394-1478: the rest of reassembleFile once the sorted chunks have been
\* copied into the buffer (copied), or the copy has thrown.
finishReassembly(st, fileId, fileName, fileType, chunks, copied) ==
    IF ~copied.ok
    THEN \* caught at 1472; the sort has already reordered the stored array
         [st EXCEPT !.fc = setKey(@, fileId, chunks),
                    !.ev = Append(@, Event("onError", "Failed to reassemble file"))]
    ELSE [fc     |-> deleteKey(st.fc, fileId),
          timers |-> Append(st.timers,
                        [name |-> fileName, size |-> chunks[1].size, type |-> fileType,
                         blob |-> copied.buffer, copiedBytes |-> copied.offset]),
          ev     |-> Append(st.ev, Event("onTransferComplete", fileId))]

\* Lines 1391-1408: sort, allocate chunks[0].size bytes, copy.
copySorted(st, fileId, fileName, fileType, chunks) ==
    finishReassembly(st, fileId, fileName, fileType, chunks,
        copyChunks([k \in 1..chunks[1].size |-> 0], chunks, 0))

\* Lines 1377-1478.
reassembleFile(st, fileId, fileName, fileType) ==
    IF fileId \notin DOMAIN st.fc \/ Len(st.fc[fileId]) = 0
    THEN \* line 1385 throws; caught at 1472
         [st EXCEPT !.ev = Append(@, Event("onError", "Failed to reassemble file"))]
    ELSE copySorted(st, fileId, fileName, fileType, sortChunks(st.fc[fileId]))

\* Lines 1363-1369: all chunks there?
reassembleIfComplete(st, c) ==
    IF Len(st.fc[c.id]) = c.totalChunks
    THEN reassembleFile(st, c.id, c.name, c.type)
    ELSE st

\* Lines 1353-1361: progress, and onTransferStart for chunk 0.
reportChunk(st, c) ==
    [st EXCEPT !.ev =
        Append(@, Event("onFileProgress",
                        [num |-> Len(st.fc[c.id]) * 100, den |-> c.totalChunks]))
            \o (IF c.currentChunk = 0 THEN <<Event("onTransferStart", c.id)>> ELSE <<>>)]

\* Lines 1338-1351: push the chunk on this.fileChunks[fileId].
storeChunk(st, c) ==
    [st EXCEPT !.fc = setKey(@, c.id,
        Append(IF c.id \in DOMAIN st.fc THEN st.fc[c.id] ELSE <<>>, c))]

\* Lines 1287-1373: a binary message.
handleChunk(st, d) ==
    IF ~d.ok
    THEN st    \* caught at 1370: console.error only
    ELSE reassembleIfComplete(reportChunk(storeChunk(st, d.chunk), d.chunk), d.chunk)

\* Lines 1253-1374.
handleDataChannelMessage(st, data) ==
    IF data.kind = "string"
    THEN IF data.type = "file-start"
         THEN [st EXCEPT !.fc = setKey(@, data.fileId, <<>>)]
         ELSE IF data.type = "file-end"
         THEN reassembleFile(st, data.fileId, data.fileName, data.fileType)
         ELSE st
    ELSE handleChunk(st, decodeChunk(data.bytes))

(***************************************************************************)
(* State after construction (lines 695-720), and the parts of it that the  *)
(* specifications below start from.                                        *)
(***************************************************************************)
EmptyMap == [k \in {} |-> <<>>]

Peers == {"p1", "p2"}

\* No createRoom or joinRoom call has been made: this.pendingCreateRoom,
\* this.pendingJoinRoom and the two timeout fields are unset (0), no 10 s
\* timer runs, the server has sent no reply and disconnect() has not
\* been called since the last call.
NoRoomCalls ==
    [calls |-> <<>>, pendingCreateRoom |-> 0, pendingJoinRoom |-> 0,
     createRoomTimeout |-> 0, joinRoomTimeout |-> 0, timers |-> {},
     replies |-> <<>>, disconnected |-> FALSE]

\* Lines 696-717: no socket, no room, no peer.
NoSignaling ==
    /\ socket = "null"
    /\ roomId = ""
    /\ peerConnections = EmptyMap
    /\ pendingRemoteDescriptions = EmptyMap
    /\ pendingIceCandidates = EmptyMap
    /\ resetTimers = [p \in Peers |-> 0]
    /\ sigOut = <<>>
    /\ pcCount = 0
    /\ sigIn = [n |-> 0, log |-> <<>>]
    /\ peerId = ""
    /\ room = NoRoomCalls
    /\ sockets = [id |-> 0, made |-> 0, detached |-> EmptyMap]

IdleSend == [pc |-> "idle", file |-> FileOfLen(0), fileId |-> <<>>, peerIds |-> {}, i |-> 0]

NoRemote == [file |-> FileOfLen(0), fileId |-> <<>>, msgs |-> <<>>,
             pending |-> {}, extra |-> 0, taken |-> 0]

\* The receiver's state as the record the operators above work on.
RxState == [fc |-> fileChunks, timers |-> rxTimers, ev |-> events]

\* The data channel's onmessage (lines 1202-1208) for message data.
SetRxState(st) ==
    /\ fileChunks' = st.fc
    /\ rxTimers' = st.timers
    /\ events' = st.ev

Receive(data) ==
    /\ SetRxState(handleDataChannelMessage(RxState, data))
    /\ rxLog' = Append(rxLog, data)

\* Lines 1450-1453: the timer of a reassembled file fires.
onFileReceivedTimer ==
    /\ rxTimers # <<>>
    /\ events' = Append(events, Event("onFileReceived", Head(rxTimers)))
    /\ rxTimers' = Tail(rxTimers)
    /\ UNCHANGED <<fileChunks, dataChannels, send, chanOut, remote, rxLog, sigVars>>

(***************************************************************************)
(* The receiving side against an arbitrary data channel: a remote peer     *)
(* sends one transfer; the channel may hand its messages over in any order,*)
(* lose some (maxRetransmits: 30, line 1013), repeat one, or carry a frame *)
(* that no sendFile produced.                                              *)
(***************************************************************************)
TransferIds == {uuidv4(1), id16}

\* Bytes of buf with those at off.. replaced by patch.
patch(buf, off, bytes) ==
    [k \in 1..Len(buf) |->
        IF k > off /\ k <= off + Len(bytes) THEN bytes[k - off] ELSE buf[k]]

\* Frames a foreign or faulty sender may produce from a frame base whose file
\* name and type take nb and tb bytes and whose file has n bytes: cut short,
\* with a length field that points past the end, or with a declared file size
\* that is not the size of the payload.
framesFrom(base, typeOff, sizeOff, n) ==
    { slice(base, 0, 27),
      slice(base, 0, typeOff + 2),
      slice(base, 0, sizeOff + 7),
      patch(base, 24, setUint32(Len(base))),
      patch(base, typeOff, setUint32(Len(base))),
      patch(base, sizeOff, setBigUint64(n + 1)) }
        \cup (IF n > 0 THEN {patch(base, sizeOff, setBigUint64(n - 1))} ELSE {})

ForeignFrames(file, fileId) ==
    { [kind |-> "binary", bytes |-> b] :
        b \in framesFrom(chunkFrame(file, fileId, 0).bytes,
                         28 + Len(TextEncode(file.name)),
                         28 + Len(TextEncode(file.name)) + 4 + Len(TextEncode(file.type)),
                         Len(file.bytes)) }

InitRecv ==
    /\ NoSignaling
    /\ fileChunks = EmptyMap
    /\ dataChannels = [p \in Peers |-> "open"]
    /\ send = IdleSend
    /\ chanOut = [p \in Peers |-> <<>>]
    /\ rxTimers = <<>>
    /\ events = <<>>
    /\ rxLog = <<>>
    /\ \E file \in Files, fileId \in TransferIds :
           remote = [NoRemote EXCEPT !.file = file, !.fileId = fileId,
                                     !.msgs = sendFileMessages(file, fileId),
                                     !.pending = 1..Len(sendFileMessages(file, fileId))]

\* The channel delivers one of the transfer's messages.
NetDeliver ==
    \E k \in remote.pending :
        /\ Receive(remote.msgs[k])
        /\ remote' = [remote EXCEPT !.pending = @ \ {k}]
        /\ UNCHANGED <<dataChannels, send, chanOut, sigVars>>

\* The channel gives up on one of them.
NetDrop ==
    \E k \in remote.pending :
        /\ remote' = [remote EXCEPT !.pending = @ \ {k}]
        /\ UNCHANGED <<fileChunks, dataChannels, send, chanOut, rxTimers, events, rxLog, sigVars>>

\* A message that already left the pending set arrives (again).
NetResend ==
    /\ remote.extra < MaxExtra
    /\ \E k \in (1..Len(remote.msgs)) \ remote.pending :
        /\ Receive(remote.msgs[k])
        /\ remote' = [remote EXCEPT !.extra = @ + 1]
        /\ UNCHANGED <<dataChannels, send, chanOut, sigVars>>

\* A frame that is not one of the transfer's arrives.
NetForeign ==
    /\ remote.extra < MaxExtra
    /\ \E m \in ForeignFrames(remote.file, remote.fileId) :
        /\ Receive(m)
        /\ remote' = [remote EXCEPT !.extra = @ + 1]
        /\ UNCHANGED <<dataChannels, send, chanOut, sigVars>>

NextRecv == NetDeliver \/ NetDrop \/ NetResend \/ NetForeign \/ onFileReceivedTimer

SpecRecv == InitRecv /\ [][NextRecv]_vars

(***************************************************************************)
(* sendFile as a process (lines 1651-1865).  It suspends while waiting for *)
(* a channel (1663), while the file is read (1687) and after every chunk   *)
(* (1836); everything between two suspensions is one step.                 *)
(***************************************************************************)
\* Lines 1212-1224.
hasOpenDataChannels == \E p \in DOMAIN dataChannels : dataChannels[p] = "open"

\* Lines 1671-1674.
openPeerIds == {p \in DOMAIN dataChannels : dataChannels[p] = "open"}

\* The message goes to one of the peers only.
sendToOpen_first(out, peerIds, msg) ==
    [p \in DOMAIN out |->
        IF peerIds # {} /\ p = (CHOOSE q \in peerIds : TRUE)
              /\ p \in DOMAIN dataChannels /\ dataChannels[p] = "open"
        THEN Append(out[p], msg) ELSE out[p]]

\* dataChannel.send(msg) on every channel of peerIds that is open now
\* (lines 1702-1720, 1817-1827, 1840-1854).
sendToOpen(out, peerIds, msg) ==
    [p \in DOMAIN out |->
        IF p \in peerIds /\ p \in DOMAIN dataChannels /\ dataChannels[p] = "open"
        THEN Append(out[p], msg) ELSE out[p]]

\* The progress counts the chunks before chunk i.
progressEvent_before(i, totalChunks) ==
    Event("onFileProgress", [num |-> i * 100, den |-> totalChunks])

\* Lines 1830-1833.
progressEvent(i, totalChunks) ==
    Event("onFileProgress", [num |-> (i + 1) * 100, den |-> totalChunks])

\* Lines 1670-1687: the open peers are noted, an id is drawn and the read of
\* the file starts.
startRead(file) ==
    \E n \in 1..2 :
        send' = [pc |-> "reading", file |-> file, fileId |-> uuidv4(n),
                 peerIds |-> openPeerIds, i |-> 0]

\* The call announces the transfer before it knows of an open channel.
sendFileCall_announced ==
    /\ send.pc = "idle"
    /\ \E file \in Files :
        IF hasOpenDataChannels
        THEN startRead(file)
        ELSE send' = [send EXCEPT !.pc = "waiting", !.file = file]
    /\ events' = Append(events, Event("onTransferStart", uuidv4(1)))
    /\ UNCHANGED <<fileChunks, dataChannels, chanOut, rxTimers, remote, rxLog, sigVars>>

\* Lines 1651-1668: the call.
sendFileCall ==
    /\ send.pc = "idle"
    /\ \E file \in Files :
        IF hasOpenDataChannels
        THEN startRead(file)
        ELSE send' = [send EXCEPT !.pc = "waiting", !.file = file]
    /\ UNCHANGED <<fileChunks, dataChannels, chanOut, rxTimers, events, remote, rxLog, sigVars>>

\* Lines 1236-1242: the 100 ms poll of waitForDataChannels finds a channel.
waitPoll ==
    /\ send.pc = "waiting"
    /\ hasOpenDataChannels
    /\ startRead(send.file)
    /\ UNCHANGED <<fileChunks, dataChannels, chanOut, rxTimers, events, remote, rxLog, sigVars>>

\* Lines 1245-1248, 1664-1667, 1860-1864: the 5 s timer rejects.
waitTimeout ==
    /\ send.pc = "waiting"
    /\ send' = [send EXCEPT !.pc = "failed"]
    /\ events' = Append(events, Event("onError", "Failed to send file"))
    /\ UNCHANGED <<fileChunks, dataChannels, chanOut, rxTimers, remote, rxLog, sigVars>>

\* Lines 1839-1857: file-end and onTransferComplete.
finishSend(out, ev) ==
    /\ chanOut' = sendToOpen(out, send.peerIds, fileEndMsg(send.file, send.fileId))
    /\ events' = Append(ev, Event("onTransferComplete", send.fileId))
    /\ send' = [send EXCEPT !.pc = "done"]

\* Lines 1726-1836: chunk i goes out, progress is reported, the 10 ms pause starts.
sendChunk(out, ev, i) ==
    /\ chanOut' = sendToOpen(out, send.peerIds, chunkFrame(send.file, send.fileId, i))
    /\ events' = Append(ev, progressEvent(i, totalChunksOf(send.file)))
    /\ send' = [send EXCEPT !.pc = "pacing", !.i = i]

\* Loop test of line 1726 with index i.
loopFrom(out, ev, i) ==
    IF i < totalChunksOf(send.file) THEN sendChunk(out, ev, i) ELSE finishSend(out, ev)

\* Lines 1687-1726: the file has been read: file-start, onTransferStart, first
\* turn of the loop.
arrayBufferRead ==
    /\ send.pc = "reading"
    /\ loopFrom(sendToOpen(chanOut, send.peerIds, fileStartMsg(send.file, send.fileId)),
                Append(events, Event("onTransferStart", send.fileId)), 0)
    /\ UNCHANGED <<fileChunks, dataChannels, rxTimers, remote, rxLog, sigVars>>

\* Line 1836: the pause is over; next turn of the loop.
pacingTimer ==
    /\ send.pc = "pacing"
    /\ loopFrom(chanOut, events, send.i + 1)
    /\ UNCHANGED <<fileChunks, dataChannels, rxTimers, remote, rxLog, sigVars>>

\* Lines 1186-1192: a connecting channel opens.
dataChannelOpen ==
    \E p \in DOMAIN dataChannels :
        /\ dataChannels[p] = "connecting"
        /\ dataChannels' = [dataChannels EXCEPT ![p] = "open"]
        /\ events' = Append(events, Event("onPeerConnected", p))
        /\ UNCHANGED <<fileChunks, send, chanOut, rxTimers, remote, rxLog, sigVars>>

(***************************************************************************)
(* Round trip: the peer at the other end of the channel runs the same      *)
(* code; the channel is ordered and here loses nothing, so what sendFile   *)
(* passes to the channel reaches the peer's handleDataChannelMessage in    *)
(* that order.  fileChunks, rxTimers and rxLog are the peer's; events      *)
(* holds the callbacks of both ends.                                       *)
(***************************************************************************)
InitLoop ==
    /\ NoSignaling
    /\ fileChunks = EmptyMap
    /\ dataChannels \in [Peers -> {"connecting", "open"}]
    /\ send = IdleSend
    /\ chanOut = [p \in Peers |-> <<>>]
    /\ rxTimers = <<>>
    /\ events = <<>>
    /\ rxLog = <<>>
    /\ remote = NoRemote

loopDeliver ==
    /\ remote.taken < Len(chanOut["p1"])
    /\ Receive(chanOut["p1"][remote.taken + 1])
    /\ remote' = [remote EXCEPT !.taken = @ + 1]
    /\ UNCHANGED <<dataChannels, send, chanOut, sigVars>>

NextLoop ==
    \/ sendFileCall \/ waitPoll \/ waitTimeout \/ arrayBufferRead \/ pacingTimer
    \/ dataChannelOpen \/ loopDeliver \/ onFileReceivedTimer

SpecLoop == InitLoop /\ [][NextLoop]_vars

(***************************************************************************)
(* Signaling.  An RTCPeerConnection is a record: its signaling state, its  *)
(* four descriptions, the candidates it has accepted and its operations    *)
(* chain, the calls of createOffer, createAnswer, setLocalDescription,     *)
(* setRemoteDescription and addIceCandidate that have not completed yet,   *)
(* in call order.  Every pending operation names the link of the promise   *)
(* chain that continues it.  Closing a connection removes the record: a    *)
(* closed connection settles no promise and fires no event.  Descriptions  *)
(* and candidates are records [type, id].                                  *)
(***************************************************************************)
\* Inbound signaling messages and connection failures in one run.
MaxSignals == 4

NoDesc == [type |-> "none", id |-> 0]

\* new RTCPeerConnection(iceServers), line 954.
newPeerConnection(id) ==
    [id |-> id, signalingState |-> "stable",
     currentLocalDescription |-> NoDesc, pendingLocalDescription |-> NoDesc,
     currentRemoteDescription |-> NoDesc, pendingRemoteDescription |-> NoDesc,
     added |-> <<>>, ops |-> <<>>]

\* peerConnection.localDescription (lines 1052, 1129, 1516).
localDescription(pc) ==
    IF pc.pendingLocalDescription # NoDesc THEN pc.pendingLocalDescription
    ELSE pc.currentLocalDescription

\* The description that addIceCandidate needs.
remoteDescription(pc) ==
    IF pc.pendingRemoteDescription # NoDesc THEN pc.pendingRemoteDescription
    ELSE pc.currentRemoteDescription

\* The offer that createOffer resolves to (line 1042) and the answer that
\* createAnswer resolves to (lines 1116, 1505): it answers the pending offer.
offerOf(pc) == [type |-> "offer", id |-> 0]
answerOf(pc) == [type |-> "answer", id |-> pc.pendingRemoteDescription.id]

\* Whether operation o, now at the head of the chain, is fulfilled.  A remote
\* offer set while a local offer is pending is fulfilled by the browsers that
\* roll the local offer back and rejected by the others (rollback).
opSucceeds(pc, o, rollback) ==
    CASE o.op = "createOffer" -> TRUE
      [] o.op = "createAnswer" -> pc.signalingState = "have-remote-offer"
      [] o.op = "setLocalDescription" ->
            IF o.arg.type = "offer"
            THEN pc.signalingState \in {"stable", "have-local-offer"}
            ELSE pc.signalingState = "have-remote-offer"
      [] o.op = "setRemoteDescription" ->
            IF o.arg.type = "offer"
            THEN \/ pc.signalingState \in {"stable", "have-remote-offer"}
                 \/ rollback /\ pc.signalingState = "have-local-offer"
            ELSE pc.signalingState = "have-local-offer"
      [] o.op = "addIceCandidate" -> remoteDescription(pc) # NoDesc

\* The connection after operation o is fulfilled.
opApplied(pc, o) ==
    CASE o.op = "setLocalDescription" /\ o.arg.type = "offer" ->
            [pc EXCEPT !.signalingState = "have-local-offer",
                       !.pendingLocalDescription = o.arg]
      [] o.op = "setLocalDescription" /\ o.arg.type = "answer" ->
            [pc EXCEPT !.signalingState = "stable",
                       !.currentLocalDescription = o.arg,
                       !.pendingLocalDescription = NoDesc,
                       !.currentRemoteDescription = pc.pendingRemoteDescription,
                       !.pendingRemoteDescription = NoDesc]
      [] o.op = "setRemoteDescription" /\ o.arg.type = "offer" ->
            [pc EXCEPT !.signalingState = "have-remote-offer",
                       !.pendingRemoteDescription = o.arg,
                       !.pendingLocalDescription = NoDesc]
      [] o.op = "setRemoteDescription" /\ o.arg.type = "answer" ->
            [pc EXCEPT !.signalingState = "stable",
                       !.currentRemoteDescription = o.arg,
                       !.pendingRemoteDescription = NoDesc,
                       !.currentLocalDescription = pc.pendingLocalDescription,
                       !.pendingLocalDescription = NoDesc]
      [] o.op = "addIceCandidate" -> [pc EXCEPT !.added = Append(@, o.arg)]
      [] OTHER -> pc

(***************************************************************************)
(* The signaling handlers.  The state they touch is passed as a record     *)
(* st = [pcs, dcs, prd, pic, tm, out, ev, made]: this.peerConnections,     *)
(* this.dataChannels, this.pendingRemoteDescriptions,                      *)
(* this.pendingIceCandidates, the timers of resetConnection, the messages  *)
(* written to the socket, the callback log and the number of connections   *)
(* constructed.                                                            *)
(***************************************************************************)
Op(op, arg, link) == [op |-> op, arg |-> arg, link |-> link]

\* peerConnection.<op>(arg) on the connection of peer p, continued by link.
call(st, p, op, arg, link) ==
    [st EXCEPT !.pcs[p].ops = Append(@, Op(op, arg, link))]

\* Lines 1635-1648.
sendSignalingMessage(st, type, to, data) ==
    IF socket = "open"
    THEN [st EXCEPT !.out = Append(@, [type |-> type, to |-> to, data |-> data,
                                       roomId |-> roomId])]
    ELSE [st EXCEPT !.ev = Append(@, Event("onError", "Not connected to signaling server"))]

\* The pending state of the peer is left behind.
closePeerConnection_keepPending(st, p) ==
    [st EXCEPT !.dcs = deleteKey(@, p), !.pcs = deleteKey(@, p)]

\* Closing one connection closes them all.
closePeerConnection_all(st, p) ==
    [st EXCEPT !.dcs = EmptyMap, !.pcs = EmptyMap, !.prd = EmptyMap, !.pic = EmptyMap]

\* Lines 1613-1632.
closePeerConnection(st, p) ==
    [st EXCEPT !.dcs = deleteKey(@, p), !.pcs = deleteKey(@, p),
               !.prd = deleteKey(@, p), !.pic = deleteKey(@, p)]

\* Lines 929-1061: the candidate queue, the connection, its data channel
\* (setupDataChannel, line 1183) and the call of createOffer.
openPeerConnection(st, p) ==
    [st EXCEPT !.pic = setKey(@, p, <<>>),
               !.pcs = setKey(@, p, [newPeerConnection(st.made + 1) EXCEPT
                          !.ops = <<Op("createOffer", NoDesc, "create:offerCreated")>>]),
               !.dcs = setKey(@, p, "connecting"),
               !.made = @ + 1]

\* Lines 916-1073.
createPeerConnection(st, p) ==
    openPeerConnection(IF p \in DOMAIN st.pcs THEN closePeerConnection(st, p) ELSE st, p)

\* Lines 1076-1090: close now, recreate in a second.
resetConnection(st, p) ==
    [closePeerConnection(st, p) EXCEPT !.tm[p] = @ + 1]

\* Lines 1093-1146, up to the call of setRemoteDescription.
applyPendingRemoteDescription(st, p) ==
    IF p \notin DOMAIN st.pcs \/ p \notin DOMAIN st.prd THEN st
    ELSE call(st, p, "setRemoteDescription", st.prd[p], "pending:applied")

\* Lines 1149-1175.
applyPendingIceCandidates(st, p) ==
    IF p \notin DOMAIN st.pcs \/ p \notin DOMAIN st.pic THEN st
    ELSE IF st.pic[p] = <<>> THEN st
    ELSE [st EXCEPT !.pcs[p].ops = @ \o [k \in 1..Len(st.pic[p]) |->
                                  Op("addIceCandidate", st.pic[p][k], "ice:added")],
                    !.pic[p] = <<>>]

\* Lines 991-1008.
onsignalingstatechange(st, p) ==
    IF st.pcs[p].signalingState = "stable"
    THEN applyPendingIceCandidates(
             IF p \in DOMAIN st.prd THEN applyPendingRemoteDescription(st, p) ELSE st, p)
    ELSE st

\* Lines 1127-1139: the last link of applyPendingRemoteDescription.
pendingDone(st, p) ==
    IF localDescription(st.pcs[p]).type = "answer"
    THEN sendSignalingMessage(st, "answer", p, localDescription(st.pcs[p]))
    ELSE st

\* Lines 1105-1126: the pending description has been set.
pendingApplied(st, p, o) ==
    IF o.arg.type = "offer"
    THEN call(st, p, "createAnswer", NoDesc, "pending:answerCreated")
    ELSE pendingDone(st, p)

\* The then-callbacks: operation o of peer p's connection was fulfilled.
fulfilled(st, p, o) ==
    CASE o.link = "create:offerCreated" ->
            call(st, p, "setLocalDescription", offerOf(st.pcs[p]), "create:offerSet")
      [] o.link = "create:offerSet" ->
            sendSignalingMessage(st, "offer", p, localDescription(st.pcs[p]))
      [] o.link = "offer:applied" ->
            call(st, p, "createAnswer", NoDesc, "offer:answerCreated")
      [] o.link = "offer:answerCreated" ->
            call(st, p, "setLocalDescription", answerOf(st.pcs[p]), "offer:answerSet")
      [] o.link = "offer:answerSet" ->
            applyPendingIceCandidates(
                sendSignalingMessage(st, "answer", p, localDescription(st.pcs[p])), p)
      [] o.link = "answer:applied" -> applyPendingIceCandidates(st, p)
      [] o.link = "pending:applied" ->
            pendingApplied([st EXCEPT !.prd = deleteKey(@, p)], p, o)
      [] o.link = "pending:answerCreated" ->
            call(st, p, "setLocalDescription", answerOf(st.pcs[p]), "pending:answerSet")
      [] o.link = "pending:answerSet" -> pendingDone(st, p)
      [] OTHER -> st

\* The catch-callbacks: operation o of peer p's connection was rejected.
rejected(st, p, o) ==
    CASE o.link \in {"create:offerCreated", "create:offerSet"} ->
            [st EXCEPT !.ev = Append(@, Event("onError", "Failed to create connection offer"))]
      [] o.link \in {"offer:applied", "offer:answerCreated", "offer:answerSet"} ->
            [st EXCEPT !.ev = Append(@, Event("onError", "Failed to handle connection offer"))]
      [] o.link = "answer:applied" ->
            [st EXCEPT !.ev = Append(@, Event("onError", "Failed to establish connection"))]
      [] OTHER -> st

\* Operation o is fulfilled: the signalingstatechange event, if the state is
\* no longer before, and then the then-callback.
completed(st, p, o, before) ==
    fulfilled(IF st.pcs[p].signalingState # before THEN onsignalingstatechange(st, p) ELSE st,
              p, o)

\* The operation at the head of the chain of peer p's connection completes.
operationDone(st, p, o, rollback) ==
    IF opSucceeds(st.pcs[p], o, rollback)
    THEN completed([st EXCEPT !.pcs[p] = opApplied([@ EXCEPT !.ops = Tail(@)], o)],
                   p, o, st.pcs[p].signalingState)
    ELSE rejected([st EXCEPT !.pcs[p].ops = Tail(@)], p, o)

\* Every new-peer creates a connection.
handleNewPeer_always(st, p) ==
    [createPeerConnection(st, p) EXCEPT !.ev = Append(@, Event("onPeerConnected", p))]

\* Lines 877-883.
handleNewPeer(st, p) ==
    IF p \notin DOMAIN st.pcs
    THEN [createPeerConnection(st, p) EXCEPT !.ev = Append(@, Event("onPeerConnected", p))]
    ELSE st

\* Lines 885-889.
handlePeerLeft(st, p) ==
    [closePeerConnection(st, p) EXCEPT !.ev = Append(@, Event("onPeerDisconnected", p))]

\* An offer that finds the connection busy is ignored.
offerOn_unqueued(st, p, sdp) ==
    IF st.pcs[p].signalingState = "stable"
    THEN call(st, p, "setRemoteDescription", sdp, "offer:applied")
    ELSE st

\* Every offer is saved for later.
offerOn_queued(st, p, sdp) ==
    [st EXCEPT !.prd = setKey(@, p, sdp)]

\* Lines 1495-1533: the connection exists.
offerOn(st, p, sdp) ==
    IF st.pcs[p].signalingState = "stable"
    THEN call(st, p, "setRemoteDescription", sdp, "offer:applied")
    ELSE [st EXCEPT !.prd = setKey(@, p, sdp)]

\* Lines 1481-1534; for an unknown peer lines 1487-1493 do what the new-peer
\* case does.
handleOffer(st, p, sdp) ==
    offerOn(handleNewPeer(st, p), p, sdp)

\* The answer is applied whatever the state of the connection.
handleAnswer_anyState(st, p, sdp) ==
    IF p \notin DOMAIN st.pcs THEN st
    ELSE call(st, p, "setRemoteDescription", sdp, "answer:applied")

\* Lines 1537-1573.
handleAnswer(st, p, sdp) ==
    IF p \notin DOMAIN st.pcs THEN st
    ELSE IF st.pcs[p].signalingState = "have-local-offer"
    THEN call(st, p, "setRemoteDescription", sdp, "answer:applied")
    ELSE [st EXCEPT !.prd = setKey(@, p, sdp)]

\* Every candidate goes straight to addIceCandidate.
handleIceCandidate_unbuffered(st, p, candidate) ==
    IF p \notin DOMAIN st.pcs THEN st
    ELSE call(st, p, "addIceCandidate", candidate, "ice:added")

\* Lines 1576-1610.
handleIceCandidate(st, p, candidate) ==
    IF p \notin DOMAIN st.pcs THEN st
    ELSE IF st.pcs[p].currentRemoteDescription = NoDesc
    THEN [st EXCEPT !.pic = setKey(@, p, Append(IF p \in DOMAIN st.pic THEN st.pic[p] ELSE <<>>,
                                                candidate))]
    ELSE call(st, p, "addIceCandidate", candidate, "ice:added")

\* Lines 779-785: socket.onclose closes the connection of every peer.
RECURSIVE closeAll(_, _)
closeAll(st, peerIds) ==
    IF peerIds = {} THEN st
    ELSE closeAll(closePeerConnection(st, CHOOSE p \in peerIds : TRUE),
                  peerIds \ {CHOOSE p \in peerIds : TRUE})

(***************************************************************************)
(* The signaling state machine: the signaling server relays the messages   *)
(* of the remote peers in any order it likes, a connection's operations    *)
(* complete one by one, a negotiated connection may fail, the socket may   *)
(* close.                                                                  *)
(***************************************************************************)
SigState ==
    [pcs |-> peerConnections, dcs |-> dataChannels, prd |-> pendingRemoteDescriptions,
     pic |-> pendingIceCandidates, tm |-> resetTimers, out |-> sigOut, ev |-> events,
     made |-> pcCount]

SetSigState(st) ==
    /\ peerConnections' = st.pcs
    /\ dataChannels' = st.dcs
    /\ pendingRemoteDescriptions' = st.prd
    /\ pendingIceCandidates' = st.pic
    /\ resetTimers' = st.tm
    /\ sigOut' = st.out
    /\ events' = st.ev
    /\ pcCount' = st.made

\* What the signaling actions leave alone.
transferVars == <<fileChunks, send, chanOut, rxTimers, remote, rxLog>>

\* socket.onmessage (lines 762-772) is called with one more message.
Inbound ==
    /\ socket = "open"
    /\ sigIn.n < MaxSignals
    /\ UNCHANGED <<socket, roomId, clientVars, transferVars>>

\* The id and the signaling state of the connection of peer p.
pcIdOf(p) == IF p \in DOMAIN peerConnections THEN peerConnections[p].id ELSE 0

stateOf(p) ==
    IF p \in DOMAIN peerConnections THEN peerConnections[p].signalingState ELSE "none"

\* The event is noted with the connection it arrived for, that connection's
\* signaling state and whether it had a remote description.
Noted(type, p) ==
    sigIn' = [n |-> sigIn.n + 1,
              log |-> Append(sigIn.log,
                         [type |-> type, from |-> p, id |-> sigIn.n + 1,
                          pc |-> pcIdOf(p), state |-> stateOf(p),
                          early |-> /\ p \in DOMAIN peerConnections
                                    /\ remoteDescription(peerConnections[p]) = NoDesc])]

\* {type: "new-peer", from: p}
sigNewPeer ==
    /\ Inbound
    /\ \E p \in Peers :
        /\ SetSigState(handleNewPeer(SigState, p))
        /\ Noted("new-peer", p)

\* {type: "peer-left", from: p}
sigPeerLeft ==
    /\ Inbound
    /\ \E p \in Peers :
        /\ SetSigState(handlePeerLeft(SigState, p))
        /\ Noted("peer-left", p)

\* {type: "offer", from: p, data: sdp}
sigOffer ==
    /\ Inbound
    /\ \E p \in Peers :
        /\ SetSigState(handleOffer(SigState, p, [type |-> "offer", id |-> sigIn.n + 1]))
        /\ Noted("offer", p)

\* {type: "answer", from: p, data: sdp}
sigAnswer ==
    /\ Inbound
    /\ \E p \in Peers :
        /\ SetSigState(handleAnswer(SigState, p, [type |-> "answer", id |-> sigIn.n + 1]))
        /\ Noted("answer", p)

\* {type: "ice-candidate", from: p, data: candidate}
sigIceCandidate ==
    /\ Inbound
    /\ \E p \in Peers :
        /\ SetSigState(handleIceCandidate(SigState, p,
                           [type |-> "candidate", id |-> sigIn.n + 1]))
        /\ Noted("ice-candidate", p)

\* The browser completes the operation at the head of a connection's chain.
pcStep ==
    \E p \in DOMAIN peerConnections, rollback \in BOOLEAN :
        /\ peerConnections[p].ops # <<>>
        /\ SetSigState(operationDone(SigState, p, Head(peerConnections[p].ops), rollback))
        /\ UNCHANGED <<socket, roomId, clientVars, sigIn, transferVars>>

\* Lines 958-988: a connection that has both descriptions reports "failed"
\* or "disconnected".
connectionFailed ==
    /\ sigIn.n < MaxSignals
    /\ \E p \in DOMAIN peerConnections :
        /\ remoteDescription(peerConnections[p]) # NoDesc
        /\ localDescription(peerConnections[p]) # NoDesc
        /\ SetSigState(resetConnection(SigState, p))
        /\ Noted("failed", p)
    /\ UNCHANGED <<socket, roomId, clientVars, transferVars>>

\* The timer recreates the connection whatever the state of the socket.
resetTimer_unconditional ==
    \E p \in Peers :
        /\ resetTimers[p] > 0
        /\ SetSigState(createPeerConnection([SigState EXCEPT !.tm[p] = @ - 1], p))
        /\ UNCHANGED <<socket, roomId, clientVars, sigIn, transferVars>>

\* Lines 1083-1089: the timer of resetConnection fires.
resetTimer ==
    \E p \in Peers :
        /\ resetTimers[p] > 0
        /\ SetSigState(IF socket = "open"
                       THEN createPeerConnection([SigState EXCEPT !.tm[p] = @ - 1], p)
                       ELSE [SigState EXCEPT !.tm[p] = @ - 1])
        /\ UNCHANGED <<socket, roomId, clientVars, sigIn, transferVars>>

\* Lines 779-785: the socket closes.
socketClose ==
    /\ socket = "open"
    /\ socket' = "closed"
    /\ SetSigState(closeAll(SigState, DOMAIN peerConnections))
    /\ UNCHANGED <<roomId, clientVars, sigIn, transferVars>>

\* The client is in a room, no peer is known yet.
InitSignal ==
    /\ socket = "open"
    /\ roomId = "room"
    /\ peerConnections = EmptyMap
    /\ dataChannels = EmptyMap
    /\ pendingRemoteDescriptions = EmptyMap
    /\ pendingIceCandidates = EmptyMap
    /\ resetTimers = [p \in Peers |-> 0]
    /\ sigOut = <<>>
    /\ pcCount = 0
    /\ sigIn = [n |-> 0, log |-> <<>>]
    /\ peerId = "me"
    /\ room = NoRoomCalls
    /\ sockets = [id |-> 1, made |-> 1, detached |-> EmptyMap]
    /\ events = <<>>
    /\ fileChunks = EmptyMap
    /\ send = IdleSend
    /\ chanOut = [p \in Peers |-> <<>>]
    /\ rxTimers = <<>>
    /\ rxLog = <<>>
    /\ remote = NoRemote

NextSignal ==
    \/ sigNewPeer \/ sigPeerLeft \/ sigOffer \/ sigAnswer \/ sigIceCandidate
    \/ pcStep \/ connectionFailed \/ resetTimer \/ socketClose

SpecSignal == InitSignal /\ [][NextSignal]_vars

\* The browser does complete the operations it was given.
FairSignal == SpecSignal /\ WF_vars(pcStep)

(***************************************************************************)
(* Rooms: createRoom and joinRoom open the socket if need be, send their   *)
(* request and wait for the server's reply or for their 10 s timer.  A     *)
(* call is a record of room.calls; this.pendingCreateRoom and the like     *)
(* hold the index of the call whose resolve function or timer they refer   *)
(* to, 0 for none.  socket is the readyState of this.socket; the sockets   *)
(* that this.socket no longer refers to but whose handlers can still run   *)
(* are in sockets.detached.                                                *)
(***************************************************************************)
MaxCalls == 2

RoomIds == {"r1", "r2"}

NoValue == [roomId |-> "", peerId |-> "", error |-> ""]

Failure(msg) == [roomId |-> "", peerId |-> "", error |-> msg]

pendingOf(op) == IF op = "createRoom" THEN "pendingCreateRoom" ELSE "pendingJoinRoom"

timeoutOf(op) == IF op = "createRoom" THEN "createRoomTimeout" ELSE "joinRoomTimeout"

requestOf(op) == IF op = "createRoom" THEN "create-room" ELSE "join-room"

replyOf(op) == IF op = "createRoom" THEN "room-created" ELSE "room-joined"

timeoutError(op) ==
    IF op = "createRoom" THEN "Timeout creating room" ELSE "Timeout joining room"

\* A promise is settled once: resolve and reject of a settled call do nothing.
settle(calls, k, state, value) ==
    IF k \in 1..Len(calls) /\ calls[k].state \in {"connecting", "waiting"}
    THEN [calls EXCEPT ![k].state = state, ![k].value = value]
    ELSE calls

\* Lines 799-815, 830-846: connect() has resolved for call k of rm; sock is the
\* readyState of this.socket.  The request goes through sendSignalingMessage
\* (lines 1635-1648), the resolve function and the timer are stored.
connected(rm, k, sock) ==
    /\ room' = [rm EXCEPT ![pendingOf(rm.calls[k].op)] = k,
                          ![timeoutOf(rm.calls[k].op)] = k,
                          !.timers = @ \cup {k},
                          !.calls[k].state = "waiting"]
    /\ IF sock = "open"
       THEN /\ sigOut' = Append(sigOut, [type |-> requestOf(rm.calls[k].op),
                                         roomId |-> rm.calls[k].roomId,
                                         sock |-> sockets.id])
            /\ UNCHANGED events
       ELSE /\ events' = Append(events,
                             Event("onError", "Not connected to signaling server"))
            /\ UNCHANGED sigOut

\* Lines 737-742: the socket is open, connect() resolves at once.
callOpen(op, r) ==
    /\ connected([room EXCEPT !.disconnected = FALSE,
                              !.calls = Append(@, [op |-> op, roomId |-> r,
                                                   state |-> "connecting",
                                                   sock |-> sockets.id,
                                                   value |-> NoValue])],
                 Len(room.calls) + 1, "open")
    /\ UNCHANGED <<socket, sockets>>

\* Lines 744-786: connect() makes a new socket; one that is still connecting
\* is no longer this.socket but keeps its handlers.
callConnect(op, r) ==
    /\ room' = [room EXCEPT !.disconnected = FALSE,
                            !.calls = Append(@, [op |-> op, roomId |-> r,
                                                 state |-> "connecting",
                                                 sock |-> sockets.made + 1,
                                                 value |-> NoValue])]
    /\ socket' = "connecting"
    /\ sockets' = [id |-> sockets.made + 1, made |-> sockets.made + 1,
                   detached |-> IF socket = "connecting"
                                THEN setKey(sockets.detached, sockets.id, "connecting")
                                ELSE sockets.detached]
    /\ UNCHANGED <<sigOut, events>>

\* The call goes on without a room id.
rejectEmpty_unchecked(op) ==
    IF socket = "open" THEN callOpen(op, "") ELSE callConnect(op, "")

\* Lines 791-794, 822-825: the call with an empty room id.
rejectEmpty(op) ==
    /\ room' = [room EXCEPT !.calls = Append(@,
                   [op |-> op, roomId |-> "", state |-> "rejected", sock |-> 0,
                    value |-> Failure("Room ID must be provided")])]
    /\ UNCHANGED <<socket, sockets, sigOut, events>>

\* createRoom(r) (lines 789-818) and joinRoom(r) (lines 820-849) are called.
roomCall ==
    /\ Len(room.calls) < MaxCalls
    /\ \E op \in {"createRoom", "joinRoom"}, r \in RoomIds \cup {""} :
          IF r = "" THEN rejectEmpty(op)
          ELSE IF socket = "open" THEN callOpen(op, r) ELSE callConnect(op, r)
    /\ UNCHANGED <<roomId, peerId, peerConnections, dataChannels,
                   pendingRemoteDescriptions, pendingIceCandidates, resetTimers,
                   pcCount, sigIn, transferVars>>

\* The call whose connect() made socket id and still waits for it, as a set.
connecting(id) ==
    {k \in 1..Len(room.calls) : room.calls[k].sock = id /\ room.calls[k].state = "connecting"}

\* Lines 757-760: a connecting socket opens, connect() resolves.
socketOpen ==
    /\ \/ /\ socket = "connecting"
          /\ socket' = "open"
          /\ UNCHANGED sockets
          /\ \E k \in connecting(sockets.id) : connected(room, k, "open")
       \/ \E id \in DOMAIN sockets.detached :
             /\ sockets.detached[id] = "connecting"
             /\ sockets' = [sockets EXCEPT !.detached[id] = "open"]
             /\ UNCHANGED socket
             /\ \E k \in connecting(id) : connected(room, k, socket)
    /\ UNCHANGED <<roomId, peerId, peerConnections, dataChannels,
                   pendingRemoteDescriptions, pendingIceCandidates, resetTimers,
                   pcCount, sigIn, transferVars>>

\* Lines 774-778 and 779-785: a socket fails: its error event calls onError
\* and rejects connect(), its close event closes every peer connection.
failed(id) ==
    /\ room' = [room EXCEPT !.calls =
                   IF connecting(id) = {} THEN @
                   ELSE settle(@, CHOOSE k \in connecting(id) : TRUE, "rejected",
                               Failure("socket error"))]
    /\ SetSigState(closeAll(
          [SigState EXCEPT !.ev = Append(@,
              Event("onError", "Failed to connect to signaling server"))],
          DOMAIN peerConnections))

socketFail ==
    /\ \/ /\ socket \in {"connecting", "open"}
          /\ socket' = "closed"
          /\ UNCHANGED sockets
          /\ failed(sockets.id)
       \/ \E id \in DOMAIN sockets.detached :
             /\ sockets.detached[id] \in {"connecting", "open", "aborting"}
             /\ sockets' = [sockets EXCEPT !.detached = deleteKey(@, id)]
             /\ UNCHANGED socket
             /\ failed(id)
    /\ UNCHANGED <<roomId, peerId, sigIn, transferVars>>

\* Lines 779-785: a socket that this.socket no longer refers to closes.
detachedClose ==
    /\ \E id \in DOMAIN sockets.detached :
          /\ sockets.detached[id] \in {"open", "closing"}
          /\ sockets' = [sockets EXCEPT !.detached = deleteKey(@, id)]
    /\ SetSigState(closeAll(SigState, DOMAIN peerConnections))
    /\ UNCHANGED <<socket, roomId, peerId, room, sigIn, transferVars>>

\* Lines 807-813, 838-844: the 10 s timer of call k fires.
roomTimer ==
    /\ \E k \in room.timers :
          room' = IF room[pendingOf(room.calls[k].op)] # 0
                  THEN [room EXCEPT !.timers = @ \ {k},
                                    ![pendingOf(room.calls[k].op)] = 0,
                                    !.calls = settle(@, k, "rejected",
                                        Failure(timeoutError(room.calls[k].op)))]
                  ELSE [room EXCEPT !.timers = @ \ {k}]
    /\ UNCHANGED <<socket, sockets, roomId, peerId, peerConnections, dataChannels,
                   pendingRemoteDescriptions, pendingIceCandidates, resetTimers,
                   sigOut, events, pcCount, sigIn, transferVars>>

\* The requests sent on this.socket that the server has not answered.
Unanswered ==
    {m \in 1..Len(sigOut) :
        /\ sigOut[m].type \in {"create-room", "join-room"}
        /\ sigOut[m].sock = sockets.id
        /\ \A j \in 1..Len(room.replies) : room.replies[j].req # m}

\* Lines 855-864, 866-875: room-created or room-joined with room id r and peer
\* id pid, the answer to request m.
replied(op, r, pid, m) ==
    /\ roomId' = r
    /\ peerId' = pid
    /\ room' = IF room[pendingOf(op)] # 0
               THEN [room EXCEPT !.timers = @ \ {room[timeoutOf(op)]},
                                 !.calls = settle(@, room[pendingOf(op)], "resolved",
                                               [roomId |-> r, peerId |-> pid,
                                                error |-> ""]),
                                 ![pendingOf(op)] = 0,
                                 !.replies = Append(@, [type |-> replyOf(op),
                                                        roomId |-> r, req |-> m])]
               ELSE [room EXCEPT !.replies = Append(@, [type |-> replyOf(op),
                                                        roomId |-> r, req |-> m])]

\* The server answers a request with the room id of the request.
roomReply ==
    /\ socket = "open"
    /\ \E m \in Unanswered :
          replied(IF sigOut[m].type = "create-room" THEN "createRoom" ELSE "joinRoom",
                  sigOut[m].roomId, "me", m)
    /\ UNCHANGED <<socket, sockets, peerConnections, dataChannels,
                   pendingRemoteDescriptions, pendingIceCandidates, resetTimers,
                   sigOut, events, pcCount, sigIn, transferVars>>

\* Lines 906-908: the server answers a request with an error message.
roomError ==
    /\ socket = "open"
    /\ \E m \in Unanswered :
          /\ room' = [room EXCEPT !.replies = Append(@, [type |-> "error",
                                        roomId |-> sigOut[m].roomId, req |-> m])]
          /\ events' = Append(events, Event("onError", "room error"))
    /\ UNCHANGED <<socket, sockets, roomId, peerId, peerConnections, dataChannels,
                   pendingRemoteDescriptions, pendingIceCandidates, resetTimers,
                   sigOut, pcCount, sigIn, transferVars>>

\* Lines 1885-1888: socket.close() and this.socket = null.  A socket closed
\* while connecting fails; an open one closes.
closeSocket ==
    /\ socket' = "null"
    /\ sockets' = [sockets EXCEPT
                      !.id = 0,
                      !.detached = IF socket = "connecting"
                                   THEN setKey(@, sockets.id, "aborting")
                                   ELSE IF socket = "open"
                                        THEN setKey(@, sockets.id, "closing")
                                        ELSE @]

\* Lines 1868-1897.
disconnect ==
    /\ ~room.disconnected
    /\ room' = [room EXCEPT !.timers = @ \ {room.createRoomTimeout, room.joinRoomTimeout},
                            !.disconnected = TRUE]
    /\ SetSigState([closeAll(SigState, DOMAIN peerConnections)
                       EXCEPT !.prd = EmptyMap, !.pic = EmptyMap])
    /\ closeSocket
    /\ roomId' = ""
    /\ peerId' = ""
    /\ UNCHANGED <<sigIn, transferVars>>

\* A new client.
InitRoom ==
    /\ NoSignaling
    /\ dataChannels = EmptyMap
    /\ events = <<>>
    /\ fileChunks = EmptyMap
    /\ send = IdleSend
    /\ chanOut = [p \in Peers |-> <<>>]
    /\ rxTimers = <<>>
    /\ rxLog = <<>>
    /\ remote = NoRemote

NextRoom ==
    \/ roomCall \/ socketOpen \/ socketFail \/ socketClose \/ detachedClose
    \/ roomTimer \/ roomReply \/ roomError \/ disconnect

SpecRoom == InitRoom /\ [][NextRoom]_vars

(***************************************************************************)
(* The client in a room with one peer, from the negotiated connection to   *)
(* disconnect(): the data channel opens, a file goes out through sendFile  *)
(* while the peer's file comes in, the connection may fail and be reset,   *)
(* and disconnect() may be called at any moment.  No call is made after    *)
(* disconnect().                                                           *)
(***************************************************************************)
\* The connection of peer p has both descriptions.
negotiated(p) ==
    /\ p \in DOMAIN peerConnections
    /\ remoteDescription(peerConnections[p]) # NoDesc
    /\ localDescription(peerConnections[p]) # NoDesc

\* Lines 1186-1192: the data channel of a negotiated connection opens.
channelOpen ==
    \E p \in DOMAIN dataChannels :
        /\ negotiated(p)
        /\ dataChannels[p] = "connecting"
        /\ dataChannels' = [dataChannels EXCEPT ![p] = "open"]
        /\ events' = Append(events, Event("onPeerConnected", p))
        /\ UNCHANGED <<fileChunks, send, chanOut, rxTimers, remote, rxLog, sigVars>>

\* Lines 1202-1208: the open data channel of the peer hands over the next
\* message of the peer's transfer.
channelMessage ==
    /\ "p1" \in DOMAIN dataChannels
    /\ dataChannels["p1"] = "open"
    /\ remote.pending # {}
    /\ Receive(remote.msgs[Len(remote.msgs) + 1 - Cardinality(remote.pending)])
    /\ remote' = [remote EXCEPT
                     !.pending = @ \ {Len(remote.msgs) + 1 - Cardinality(remote.pending)}]
    /\ UNCHANGED <<dataChannels, send, chanOut, sigVars>>

\* sendFile(file) is called (lines 1651-1668) on a client that was not
\* disconnected.
sendFileLive ==
    /\ ~room.disconnected
    /\ sendFileCall

\* The operation at the head of the chain of peer p's connection completes.
headDone(st, p) == operationDone(st, p, Head(st.pcs[p].ops), FALSE)

\* The client's state after new-peer from p1, the offer made and set
\* (lines 1042-1056), the answer of p1 (id 2) arrived and set.
Joined ==
    headDone(handleAnswer(headDone(headDone(
        handleNewPeer([pcs |-> EmptyMap, dcs |-> EmptyMap, prd |-> EmptyMap,
                       pic |-> EmptyMap, tm |-> [p \in Peers |-> 0], out |-> <<>>,
                       ev |-> <<>>, made |-> 0], "p1"),
        "p1"), "p1"), "p1", [type |-> "answer", id |-> 2]), "p1")

\* The client is in a room with peer p1, the connection is negotiated; the
\* peer is about to send one of the files.
InitLife ==
    /\ socket = "open"
    /\ roomId = "room"
    /\ peerId = "me"
    /\ room = NoRoomCalls
    /\ sockets = [id |-> 1, made |-> 1, detached |-> EmptyMap]
    /\ peerConnections = Joined.pcs
    /\ dataChannels = Joined.dcs
    /\ pendingRemoteDescriptions = Joined.prd
    /\ pendingIceCandidates = Joined.pic
    /\ resetTimers = Joined.tm
    /\ sigOut = Joined.out
    /\ pcCount = Joined.made
    /\ events = Joined.ev
    /\ sigIn = [n |-> 2,
                log |-> <<[type |-> "new-peer", from |-> "p1", id |-> 1, pc |-> 0,
                           state |-> "none", early |-> FALSE],
                          [type |-> "answer", from |-> "p1", id |-> 2, pc |-> 1,
                           state |-> "have-local-offer", early |-> TRUE]>>]
    /\ fileChunks = EmptyMap
    /\ send = IdleSend
    /\ chanOut = [p \in Peers |-> <<>>]
    /\ rxTimers = <<>>
    /\ rxLog = <<>>
    /\ \E file \in Files :
           remote = [NoRemote EXCEPT !.file = file, !.fileId = id16,
                                     !.msgs = sendFileMessages(file, id16),
                                     !.pending = 1..Len(sendFileMessages(file, id16))]

NextLife ==
    \/ pcStep \/ connectionFailed \/ resetTimer
    \/ channelOpen \/ channelMessage \/ onFileReceivedTimer
    \/ sendFileLive \/ waitPoll \/ waitTimeout \/ arrayBufferRead \/ pacingTimer
    \/ disconnect \/ detachedClose

SpecLife == InitLife /\ [][NextLife]_vars

(***************************************************************************)
(* The client in a room with one peer that leaves the room and enters one  *)
(* again: the connection may fail and be reset, disconnect() may be        *)
(* called, createRoom and joinRoom open a new socket.  No other peer        *)
(* enters the room.                                                        *)
(***************************************************************************)
\* The client is in a room with peer p1, the connection is negotiated.
InitRejoin ==
    /\ socket = "open"
    /\ roomId = "room"
    /\ peerId = "me"
    /\ room = NoRoomCalls
    /\ sockets = [id |-> 1, made |-> 1, detached |-> EmptyMap]
    /\ peerConnections = Joined.pcs
    /\ dataChannels = Joined.dcs
    /\ pendingRemoteDescriptions = Joined.prd
    /\ pendingIceCandidates = Joined.pic
    /\ resetTimers = Joined.tm
    /\ sigOut = Joined.out
    /\ pcCount = Joined.made
    /\ events = Joined.ev
    /\ sigIn = [n |-> 2,
                log |-> <<[type |-> "new-peer", from |-> "p1", id |-> 1, pc |-> 0,
                           state |-> "none", early |-> FALSE],
                          [type |-> "answer", from |-> "p1", id |-> 2, pc |-> 1,
                           state |-> "have-local-offer", early |-> TRUE]>>]
    /\ fileChunks = EmptyMap
    /\ send = IdleSend
    /\ chanOut = [p \in Peers |-> <<>>]
    /\ rxTimers = <<>>
    /\ rxLog = <<>>
    /\ remote = NoRemote

NextRejoin ==
    \/ pcStep \/ connectionFailed \/ resetTimer
    \/ roomCall \/ socketOpen \/ socketFail \/ socketClose \/ detachedClose
    \/ roomTimer \/ roomReply \/ roomError \/ disconnect

SpecRejoin == InitRejoin /\ [][NextRejoin]_vars

(***************************************************************************)
(* The client in a room with one peer sends a file while the signaling     *)
(* goes on: peers join and leave, the connection may fail, be reset and    *)
(* be negotiated again, and its new data channel opens.                    *)
(***************************************************************************)
NextReconnect ==
    \/ sigNewPeer \/ sigPeerLeft \/ sigOffer \/ sigAnswer \/ sigIceCandidate
    \/ pcStep \/ connectionFailed \/ resetTimer \/ channelOpen
    \/ sendFileCall \/ waitPoll \/ waitTimeout \/ arrayBufferRead \/ pacingTimer

SpecReconnect == InitRejoin /\ [][NextReconnect]_vars

(***************************************************************************)
(* A new client enters a room, leaves it through disconnect() and enters   *)
(* a room again over a new socket, where the server tells it of new        *)
(* peers; the sockets it no longer refers to close when they close.        *)
(***************************************************************************)
\* The server tells a member of a room of a new peer.
sigNewPeerInRoom ==
    /\ roomId # ""
    /\ sigNewPeer

NextReplace ==
    \/ roomCall \/ socketOpen \/ socketFail \/ detachedClose
    \/ roomReply \/ disconnect \/ sigNewPeerInRoom

SpecReplace == InitRoom /\ [][NextReplace]_vars

(***************************************************************************)
(* Two transfers at once: two sendFile calls, of one peer or of two, each  *)
(* over an ordered channel that loses nothing; the receiver is handed the  *)
(* next message of either transfer.  remote.msgs holds the messages of the *)
(* first transfer followed by those of the second.                         *)
(***************************************************************************)
\* The File object of the second transfer: name "b", type "u", bytes 101,
\* 102, ..., 100 + n.
SecondFile(n) == [name |-> <<98>>, type |-> <<117>>, bytes |-> [k \in 1..n |-> 100 + k]]

\* The number of messages of the first transfer.
FirstLen == Len(sendFileMessages(remote.file, remote.fileId))

\* The next message, if any, of the transfer whose messages are lo..hi.
nextOf(lo, hi) ==
    {k \in remote.pending \cap (lo..hi) : \A j \in remote.pending \cap (lo..hi) : k <= j}

\* Lines 1202-1208: a channel hands over the next message of its transfer.
interleaved ==
    \E k \in nextOf(1, FirstLen) \cup nextOf(FirstLen + 1, Len(remote.msgs)) :
        /\ Receive(remote.msgs[k])
        /\ remote' = [remote EXCEPT !.pending = @ \ {k}]
        /\ UNCHANGED <<dataChannels, send, chanOut, sigVars>>

InitTwo ==
    /\ NoSignaling
    /\ fileChunks = EmptyMap
    /\ dataChannels = [p \in Peers |-> "open"]
    /\ send = IdleSend
    /\ chanOut = [p \in Peers |-> <<>>]
    /\ rxTimers = <<>>
    /\ events = <<>>
    /\ rxLog = <<>>
    /\ \E a \in 1..MaxFileLen, b \in 1..MaxFileLen :
           remote = [NoRemote EXCEPT
                        !.file = FileOfLen(a), !.fileId = uuidv4(1),
                        !.msgs = sendFileMessages(FileOfLen(a), uuidv4(1))
                                     \o sendFileMessages(SecondFile(b), uuidv4(2)),
                        !.pending = 1..(Len(sendFileMessages(FileOfLen(a), uuidv4(1)))
                                        + Len(sendFileMessages(SecondFile(b), uuidv4(2))))]

NextTwo == interleaved \/ onFileReceivedTimer

SpecTwo == InitTwo /\ [][NextTwo]_vars

(***************************************************************************)
(* Properties of the transfer protocol.                                    *)
(***************************************************************************)
Last(seq) == seq[Len(seq)]

\* The contents of every file handed to onFileReceived so far.
ReceivedBlobs ==
    LET got == SelectSeq(events, LAMBDA e : e.cb = "onFileReceived")
    IN  [k \in 1..Len(got) |-> got[k].arg.blob]

\* Every file reassembled so far: handed to onFileReceived, or waiting for its
\* timer.
ReassembledFiles ==
    LET got == SelectSeq(events, LAMBDA e : e.cb = "onFileReceived")
    IN  [k \in 1..Len(got) |-> got[k].arg] \o rxTimers

\* The step just taken handed message m to handleDataChannelMessage.
Handled(m) == rxLog' = Append(rxLog, m)

HandledSomething == Len(rxLog') = Len(rxLog) + 1

\* The key under which the receiver buffers the chunks of transfer fileId.
ChunkKey(fileId) == TextDecode(fileIdField(fileId))

\* ceil(n / cs), written out.
Ceil(n, cs) == IF n % cs = 0 THEN n \div cs ELSE (n \div cs) + 1

\* C1: round trip.  Once sendFile has finished on a channel that was open from
\* the start, the peer has handled everything sent and its timers have fired,
\* the peer has received exactly one file, byte-identical to the file sent
\* (files of 0, 1, C, C+1 and 2C+1 bytes).
C1_RoundTrip ==
    (/\ send.pc = "done"
     /\ "p1" \in send.peerIds
     /\ remote.taken = Len(chanOut["p1"])
     /\ rxTimers = <<>>)
        => ReceivedBlobs = <<send.file.bytes>>

\* The frames among the messages passed to p1's channel, decoded.
SentFrames ==
    LET frames == SelectSeq(chanOut["p1"], LAMBDA m : m.kind = "binary")
    IN  [k \in 1..Len(frames) |-> decodeChunk(frames[k].bytes).chunk]

RECURSIVE SumLen(_)
SumLen(chunks) ==
    IF chunks = <<>> THEN 0 ELSE Len(Head(chunks).data) + SumLen(Tail(chunks))

\* C2: sendFile cuts the file into ceil(fileSize / chunkSize) frames, numbered
\* 0, 1, ... in the order sent; frame i carries the bytes i*chunkSize up to
\* min((i+1)*chunkSize, fileSize); when the call is done the payloads add up
\* to fileSize and the last one has fileSize mod chunkSize bytes, or chunkSize
\* if that is 0.  At 65536 bytes a chunk, 150000 bytes make 65536, 65536, 18928.
C2_Partition ==
    /\ ("p1" \in send.peerIds /\ send.pc \in {"pacing", "done"}) =>
         LET n     == Len(send.file.bytes)
             total == Ceil(n, chunkSize)
         IN  /\ Len(SentFrames) <= total
             /\ \A k \in 1..Len(SentFrames) :
                   /\ SentFrames[k].currentChunk = k - 1
                   /\ SentFrames[k].totalChunks = total
                   /\ SentFrames[k].data =
                        SubSeq(send.file.bytes, (k - 1) * chunkSize + 1,
                               Min(k * chunkSize, n))
             /\ send.pc = "done" =>
                   /\ Len(SentFrames) = total
                   /\ SumLen(SentFrames) = n
                   /\ total > 0 =>
                        Len(SentFrames[total].data) =
                            IF n % chunkSize = 0 THEN chunkSize ELSE n % chunkSize
    /\ ceilDiv(150000, 65536) = 3
    /\ \A i \in 0..2 :
          chunkEnd(i, 150000, 65536) - chunkStart(i, 65536)
              = IF i < 2 THEN 65536 ELSE 18928

\* A three-chunk file with a short last chunk has gone out completely.
C2_Witness ==
    /\ send.pc = "done"
    /\ "p1" \in send.peerIds
    /\ Len(send.file.bytes) = 2 * chunkSize + 1
    /\ Len(SentFrames) = 3

\* The transfer the remote peer is sending.
RemoteTotal == totalChunksOf(remote.file)
RemoteFrames == {remote.msgs[k] : k \in 2..(RemoteTotal + 1)}

\* The receiver has handled file-start and then every chunk frame exactly once,
\* in some order, possibly followed by file-end, and nothing else.
AllFramesSomeOrder ==
    /\ RemoteTotal >= 1
    /\ Len(rxLog) \in {RemoteTotal + 1, RemoteTotal + 2}
    /\ rxLog[1] = remote.msgs[1]
    /\ {rxLog[k] : k \in 2..(RemoteTotal + 1)} = RemoteFrames
    /\ Len(rxLog) = RemoteTotal + 2 => Last(rxLog) = Last(remote.msgs)

\* C3: whatever the order in which the chunk frames of a transfer arrive
\* (reverse order included), the file reassembled is the one that forward
\* order gives: the bytes sent.
C3_AnyOrder ==
    AllFramesSomeOrder =>
        /\ Len(ReassembledFiles) = 1
        /\ ReassembledFiles[1].blob = remote.file.bytes

\* Three frames arrived in reverse order.
C3_Witness ==
    /\ AllFramesSomeOrder
    /\ RemoteTotal = 3
    /\ rxLog[2] = remote.msgs[4]
    /\ rxLog[3] = remote.msgs[3]
    /\ rxLog[4] = remote.msgs[2]
    /\ ReassembledFiles # <<>>

\* Chunks buffered for the remote transfer.
BufferedCount ==
    IF ChunkKey(remote.fileId) \in DOMAIN fileChunks
    THEN Len(fileChunks[ChunkKey(remote.fileId)]) ELSE 0

\* C4: a file-end that arrives while fewer than totalChunks frames of its
\* transfer are buffered delivers no file and leaves the buffered chunks in
\* place (reassembly waits for the last chunk).
C4_IncompleteTransfer ==
    [][(/\ Handled(Last(remote.msgs))
        /\ BufferedCount < RemoteTotal)
          => (rxTimers' = rxTimers /\ fileChunks' = fileChunks)]_vars

\* The receiver has handled every message of the transfer exactly once, and
\* file-start first.
AllMessagesOnce ==
    /\ RemoteTotal >= 1
    /\ Len(rxLog) = Len(remote.msgs)
    /\ rxLog[1] = remote.msgs[1]
    /\ {rxLog[k] : k \in 1..Len(rxLog)} = {remote.msgs[k] : k \in 1..Len(remote.msgs)}

\* C5: whichever of the two triggers comes first (the last chunk, or file-end),
\* a transfer whose messages have all been handled has been reassembled, and
\* handed to onFileReceived, exactly once.
C5_ReassembledOnce ==
    AllMessagesOnce => Len(ReassembledFiles) = 1

\* file-end came before the last chunk of a transfer whose chunks and file-end
\* use the same key.
C5_Witness ==
    /\ AllMessagesOnce
    /\ remote.fileId = id16
    /\ RemoteTotal >= 2
    /\ Last(rxLog).kind = "binary"
    /\ Len(ReassembledFiles) = 1

\* A frame shorter than its header, or one whose file name or file type length
\* points past its end.
MalformedFrame(b) ==
    \/ Len(b) < 28
    \/ 28 + getUint32(b, 24) + 4 > Len(b)
    \/ 28 + getUint32(b, 24) + 4 + getUint32(b, 28 + getUint32(b, 24)) + 8 > Len(b)

HandledMalformed ==
    /\ HandledSomething
    /\ Last(rxLog').kind = "binary"
    /\ MalformedFrame(Last(rxLog').bytes)

\* C6: a frame that is too short, or whose fileNameLength or mimeTypeLength
\* would read past its end, is rejected: no chunk record is added to any
\* buffer and nothing is delivered.
C6_MalformedFrameRejected ==
    [][HandledMalformed => (fileChunks' = fileChunks /\ rxTimers' = rxTimers)]_vars

\* A frame whose fileNameLength points past the end has been handled while
\* chunks were buffered.
C6_Witness ==
    /\ rxLog # <<>>
    /\ Last(rxLog).kind = "binary"
    /\ Len(Last(rxLog).bytes) >= 40
    /\ 28 + getUint32(Last(rxLog).bytes, 24) > Len(Last(rxLog).bytes)
    /\ BufferedCount > 0

\* C7: no file is reassembled from chunks whose payloads do not add up to the
\* declared file size.
C7_SizeMismatch ==
    \A k \in 1..Len(ReassembledFiles) :
        ReassembledFiles[k].copiedBytes = ReassembledFiles[k].size

\* The step just taken called onError.
OnErrorFired ==
    /\ Len(events') = Len(events) + 1
    /\ Last(events').cb = "onError"

\* The transfer id the message just handled belongs to.
HandledId ==
    IF Last(rxLog').kind = "string" THEN Last(rxLog').fileId
    ELSE TextDecode(slice(Last(rxLog').bytes, 0, 16))

\* C8: a decode-time error is surfaced through onError, the buffer of the
\* offending transfer is discarded, every other buffer is left as it was.
C8_DecodeErrorSurfaced ==
    [][/\ HandledMalformed => OnErrorFired
       /\ (HandledSomething /\ OnErrorFired) =>
             /\ HandledId \notin DOMAIN fileChunks'
             /\ \A id \in DOMAIN fileChunks \ {HandledId} :
                   id \in DOMAIN fileChunks' /\ fileChunks'[id] = fileChunks[id]]_vars

(***************************************************************************)
(* Properties of the signaling state machine.                              *)
(***************************************************************************)
\* The candidates handed to handleIceCandidate for the present connection of
\* peer p, in receipt order.
ReceivedFor(p) ==
    SelectSeq(sigIn.log, LAMBDA r : /\ r.type = "ice-candidate"
                                    /\ r.from = p
                                    /\ r.pc = peerConnections[p].id)

CandidatesOf(log) == [k \in 1..Len(log) |-> [type |-> "candidate", id |-> log[k].id]]

\* The candidates of the addIceCandidate calls that the connection has not
\* completed yet, in call order.
BeingAdded(pc) ==
    LET adds == SelectSeq(pc.ops, LAMBDA o : o.op = "addIceCandidate")
    IN  [k \in 1..Len(adds) |-> adds[k].arg]

QueueOf(p) == IF p \in DOMAIN pendingIceCandidates THEN pendingIceCandidates[p] ELSE <<>>

\* The connection holds a remote offer and its chain holds the createAnswer
\* or setLocalDescription(answer) that takes it to "stable".
AnswerUnderWay(pc) ==
    /\ pc.signalingState = "have-remote-offer"
    /\ \E k \in 1..Len(pc.ops) :
           \/ pc.ops[k].op = "createAnswer"
           \/ pc.ops[k].op = "setLocalDescription" /\ pc.ops[k].arg.type = "answer"

\* C9: for every peer that has a connection, the candidates received for that
\* connection are, in receipt order, those the connection has accepted, then
\* those it has been handed, then those still queued (none lost, none out of
\* order); none is handed to a connection that has no remote description, so
\* all that arrive before one are in the queue; and once the connection has a
\* current remote description the queue is empty; candidates are queued on a
\* connection that has a remote description only while the answer that ends
\* the negotiation, and with it the flush, is under way.
C9_CandidatesBuffered ==
    \A p \in DOMAIN peerConnections :
        /\ CandidatesOf(ReceivedFor(p))
              = peerConnections[p].added \o BeingAdded(peerConnections[p]) \o QueueOf(p)
        /\ remoteDescription(peerConnections[p]) = NoDesc
              => QueueOf(p) = CandidatesOf(ReceivedFor(p))
        /\ peerConnections[p].currentRemoteDescription # NoDesc => QueueOf(p) = <<>>
        /\ (remoteDescription(peerConnections[p]) # NoDesc /\ QueueOf(p) # <<>>)
              => AnswerUnderWay(peerConnections[p])

\* A connection has accepted, in receipt order, two candidates that arrived
\* before it had a remote description, and its queue is empty.
C9_Witness ==
    \E p \in DOMAIN peerConnections :
        /\ Len(ReceivedFor(p)) >= 2
        /\ ReceivedFor(p)[1].early /\ ReceivedFor(p)[2].early
        /\ Len(peerConnections[p].added) >= 2
        /\ QueueOf(p) = <<>>

\* The step just taken handed an offer of peer p to handleOffer while p's
\* connection had a local offer pending.
GlareOffer(p) ==
    /\ Len(sigIn'.log) = Len(sigIn.log) + 1
    /\ Last(sigIn'.log).type = "offer"
    /\ Last(sigIn'.log).from = p
    /\ Last(sigIn'.log).state = "have-local-offer"

\* The step just taken completed the operation at the head of the chain of
\* p's connection.
Completed(p) ==
    /\ sigIn' = sigIn
    /\ p \in DOMAIN peerConnections /\ p \in DOMAIN peerConnections'
    /\ peerConnections'[p].id = peerConnections[p].id
    /\ peerConnections'[p] # peerConnections[p]

QueuedOffer(p) ==
    /\ p \in DOMAIN pendingRemoteDescriptions
    /\ pendingRemoteDescriptions[p].type = "offer"

\* The step just taken brought p's connection back to "stable" with an offer
\* queued.
BackToStable(p) ==
    /\ Completed(p)
    /\ peerConnections[p].signalingState # "stable"
    /\ peerConnections'[p].signalingState = "stable"
    /\ QueuedOffer(p)

\* The step just taken completed the operation with this link, given by
\* applyPendingRemoteDescription for an offer.
CompletedLink(p, link) ==
    /\ Completed(p)
    /\ Head(peerConnections[p].ops).link = link
    /\ link = "pending:applied" => Head(peerConnections[p].ops).arg.type = "offer"

\* C10: glare.  An offer that arrives while the connection is in
\* "have-local-offer" becomes the peer's queued remote description and the
\* connection is left alone; when the connection returns to "stable" with an
\* offer queued, that offer is handed to setRemoteDescription; that call and
\* the createAnswer and setLocalDescription(answer) that follow it are
\* fulfilled, each calling the next, and the last one writes the answer,
\* addressed to the peer, to the signaling socket.
C10_GlareQueued ==
    [][\A p \in Peers :
        /\ GlareOffer(p) =>
              /\ p \in DOMAIN pendingRemoteDescriptions'
              /\ pendingRemoteDescriptions'[p] = [type |-> "offer", id |-> Last(sigIn'.log).id]
              /\ peerConnections' = peerConnections
        /\ BackToStable(p) =>
              \E k \in 1..Len(peerConnections'[p].ops) :
                  peerConnections'[p].ops[k] =
                      Op("setRemoteDescription", pendingRemoteDescriptions[p], "pending:applied")
        /\ CompletedLink(p, "pending:applied") =>
              /\ peerConnections'[p].pendingRemoteDescription = Head(peerConnections[p].ops).arg
              /\ peerConnections'[p].signalingState = "have-remote-offer"
              /\ Last(peerConnections'[p].ops) = Op("createAnswer", NoDesc, "pending:answerCreated")
        /\ CompletedLink(p, "pending:answerCreated") =>
              /\ Last(peerConnections'[p].ops).op = "setLocalDescription"
              /\ Last(peerConnections'[p].ops).arg.type = "answer"
              /\ Last(peerConnections'[p].ops).link = "pending:answerSet"
        /\ CompletedLink(p, "pending:answerSet") =>
              /\ peerConnections'[p].signalingState = "stable"
              /\ sigOut' = Append(sigOut, [type |-> "answer", to |-> p,
                                           data |-> Head(peerConnections[p].ops).arg,
                                           roomId |-> roomId])
    ]_vars

\* An offer arrived under glare and the answer to it has been written to the
\* socket by the connection it arrived for.
C10_Witness ==
    \E k \in 1..Len(sigIn.log), j \in 1..Len(sigOut) :
        /\ sigIn.log[k].type = "offer"
        /\ sigIn.log[k].state = "have-local-offer"
        /\ sigOut[j] = [type |-> "answer", to |-> sigIn.log[k].from,
                        data |-> [type |-> "answer", id |-> sigIn.log[k].id],
                        roomId |-> roomId]
        /\ pcIdOf(sigIn.log[k].from) = sigIn.log[k].pc

(***************************************************************************)
(* Properties of the client's life cycle.                                  *)
(***************************************************************************)
\* How often callback cb was called with arg in the log ev.
Fired(ev, cb, arg) == Len(SelectSeq(ev, LAMBDA e : e = Event(cb, arg)))

\* The step just taken was the close event of the socket.
SocketClosed == socket = "open" /\ socket' = "closed"

\* C11: when the signaling socket closes, the connection of every peer is
\* torn down (no connection, data channel, queued description or candidate
\* queue is left) and onPeerDisconnected is called exactly once for each peer
\* that had a connection.
C11_ChannelCloseTearsDown ==
    [][SocketClosed =>
          /\ peerConnections' = EmptyMap
          /\ dataChannels' = EmptyMap
          /\ pendingRemoteDescriptions' = EmptyMap
          /\ pendingIceCandidates' = EmptyMap
          /\ \A p \in DOMAIN peerConnections :
                Fired(events', "onPeerDisconnected", p)
                    = Fired(events, "onPeerDisconnected", p) + 1
    ]_vars

\* The step just taken noted an event of this type for peer p.
NotedNow(type, p) ==
    /\ Len(sigIn'.log) = Len(sigIn.log) + 1
    /\ Last(sigIn'.log).type = type
    /\ Last(sigIn'.log).from = p

\* Peer p has no connection, data channel, queued description or candidate
\* queue in the state the step leads to.
TornDownNext(p) ==
    /\ p \notin DOMAIN peerConnections'
    /\ p \notin DOMAIN dataChannels'
    /\ p \notin DOMAIN pendingRemoteDescriptions'
    /\ p \notin DOMAIN pendingIceCandidates'

\* C14: a failure reported by the connection of peer p tears that session
\* down, starts one 1 s timer and creates no connection; a timer is started by
\* nothing else; when a timer fires it is used up and, if the socket is open,
\* one new connection for p is created, which calls createOffer; if the socket
\* is not open nothing is created.
C14_ResetOnFailure ==
    [][\A p \in Peers :
        /\ NotedNow("failed", p) =>
              /\ TornDownNext(p)
              /\ resetTimers'[p] = resetTimers[p] + 1
              /\ pcCount' = pcCount
        /\ resetTimers'[p] > resetTimers[p] => NotedNow("failed", p)
        /\ resetTimers'[p] < resetTimers[p] =>
              /\ resetTimers'[p] = resetTimers[p] - 1
              /\ IF socket = "open"
                 THEN /\ pcCount' = pcCount + 1
                      /\ p \in DOMAIN peerConnections'
                      /\ peerConnections'[p].id = pcCount'
                      /\ peerConnections'[p].ops
                            = <<Op("createOffer", NoDesc, "create:offerCreated")>>
                 ELSE /\ pcCount' = pcCount
                      /\ peerConnections' = peerConnections
    ]_vars

\* The connection of a peer failed, nothing was heard of the peer since, the
\* timer has fired and the peer has a new connection.
C14_Witness ==
    /\ sigIn.log # <<>>
    /\ Last(sigIn.log).type = "failed"
    /\ resetTimers[Last(sigIn.log).from] = 0
    /\ pcIdOf(Last(sigIn.log).from) > Last(sigIn.log).pc

\* The last new-peer, offer or peer-left noted for peer p is a peer-left.
LeftLast(p) ==
    \E k \in 1..Len(sigIn.log) :
        /\ sigIn.log[k].from = p
        /\ sigIn.log[k].type = "peer-left"
        /\ \A j \in (k + 1)..Len(sigIn.log) :
              ~(sigIn.log[j].from = p /\ sigIn.log[j].type \in {"new-peer", "offer"})

\* C15: once peer p has left, and until a new-peer or an offer of p arrives,
\* there is no connection for p, whatever failures were reported before.
C15_NoReconnectAfterLeft ==
    \A p \in Peers : LeftLast(p) => p \notin DOMAIN peerConnections

\* C20: a sendFile that found no open channel and is waiting, or has failed,
\* has sent nothing on any channel and has not called onTransferStart; one
\* that failed has reported the failure once; one that went on did so with at
\* least one peer, and every peer it sends to has an open channel.
C20_NeedsOpenChannel ==
    /\ send.pc \in {"waiting", "failed"} =>
          /\ \A p \in Peers : chanOut[p] = <<>>
          /\ \A k \in 1..Len(events) : events[k].cb # "onTransferStart"
    /\ send.pc = "failed" => Fired(events, "onError", "Failed to send file") = 1
    /\ send.pc \in {"reading", "pacing", "done"} =>
          /\ send.peerIds # {}
          /\ \A p \in send.peerIds : dataChannels[p] = "open"

\* A sendFile that waited for a channel in vain has failed.
C20_Witness ==
    /\ send.pc = "failed"
    /\ \E p \in Peers : dataChannels[p] = "connecting"

(* Properties of createRoom and joinRoom. *)
\* The step just taken was a call of createRoom or joinRoom with room id r.
Called(r) ==
    /\ Len(room'.calls) = Len(room.calls) + 1
    /\ Last(room'.calls).roomId = r

\* C19: createRoom and joinRoom called with an empty room id are rejected at
\* once with "Room ID must be provided"; the call makes no socket, sends
\* nothing, calls no callback and changes no field of the client.
C19_EmptyRoomIdRejected ==
    [][Called("") =>
          /\ Last(room'.calls).state = "rejected"
          /\ Last(room'.calls).value = Failure("Room ID must be provided")
          /\ room' = [room EXCEPT !.calls = room'.calls]
          /\ UNCHANGED <<socket, sockets, sigOut, events, roomId, peerId,
                         peerConnections, dataChannels, pendingRemoteDescriptions,
                         pendingIceCandidates, resetTimers, pcCount, sigIn,
                         transferVars>>
    ]_vars

\* A call with an empty room id was made while another call was waiting for
\* its reply.
C19_Witness ==
    \E k \in 1..Len(room.calls) :
        /\ room.calls[k].roomId = ""
        /\ room.calls[k].state = "rejected"
        /\ room.pendingCreateRoom # 0

\* The step just taken handled a room-created or room-joined reply.
Replied ==
    /\ Len(room'.replies) = Len(room.replies) + 1
    /\ Last(room'.replies).type \in {"room-created", "room-joined"}

\* The call that this.pendingCreateRoom (createRoom) or this.pendingJoinRoom
\* (joinRoom) refers to, 0 for none.
PendingCall(op) == room[pendingOf(op)]

\* C18: a room-created reply whose room id differs from the room id of the
\* pending createRoom call leaves that call pending and the client's roomId as
\* it was; likewise room-joined and joinRoom.
C18_ReplyCorrelated ==
    [][\A op \in {"createRoom", "joinRoom"} :
          /\ Replied
          /\ Last(room'.replies).type = replyOf(op)
          /\ PendingCall(op) # 0
          /\ Last(room'.replies).roomId # room.calls[PendingCall(op)].roomId
          => /\ room'.calls[PendingCall(op)].state = "waiting"
             /\ roomId' = roomId
    ]_vars

\* The step just taken was the 10 s timer of call k firing.
TimerFired(k) ==
    /\ k \in room.timers
    /\ k \notin room'.timers
    /\ room'.replies = room.replies
    /\ room'.disconnected = room.disconnected

\* C16: when the 10 s timer of a call fires and no reply has resolved the call,
\* the call is rejected with a timeout error and the pending request is
\* cleared; a call that was rejected stays rejected whatever arrives later.
C16_TimeoutRejects ==
    [][\A k \in 1..Len(room.calls) :
          /\ TimerFired(k) /\ room.calls[k].state = "waiting" =>
                /\ room'.calls[k].state = "rejected"
                /\ room'.calls[k].value = Failure(timeoutError(room.calls[k].op))
                /\ room'[pendingOf(room.calls[k].op)] = 0
          /\ room.calls[k].state = "rejected" => room'.calls[k] = room.calls[k]
    ]_vars

\* C17: no call of createRoom or joinRoom is left where nothing can settle it:
\* a call that waits for its reply has its 10 s timer running or is the call
\* that the next reply resolves.
C17_NoCallStuck ==
    \A k \in 1..Len(room.calls) :
        room.calls[k].state = "waiting" =>
            \/ k \in room.timers
            \/ PendingCall(room.calls[k].op) = k

\* The step just taken was a call of disconnect().
Disconnected == ~room.disconnected /\ room'.disconnected

\* C12: when disconnect() returns the client has no peer connection, no data
\* channel, no queued description, no candidate queue and no chunk of an
\* inbound transfer, roomId and peerId are cleared and the socket is closed.
C12_DisconnectClears ==
    [][Disconnected =>
          /\ peerConnections' = EmptyMap
          /\ dataChannels' = EmptyMap
          /\ pendingRemoteDescriptions' = EmptyMap
          /\ pendingIceCandidates' = EmptyMap
          /\ fileChunks' = EmptyMap
          /\ roomId' = ""
          /\ peerId' = ""
          /\ socket' = "null"
          /\ \A id \in DOMAIN sockets'.detached :
                sockets'.detached[id] \in {"closing", "aborting"}
    ]_vars

\* C13: once disconnect() has returned, and while no call is made, none of the
\* callbacks is called.
C13_SilentAfterDisconnect ==
    [][room.disconnected /\ room'.disconnected => events' = events]_vars

(* Properties of the callbacks and of the frames. *)
\* msgs is one file-start, then the chunk frames of file with the sequence
\* indexes 0, 1, ... in this order, then one file-end.
WholeFileInOrder(msgs, file) ==
    /\ Len(msgs) = totalChunksOf(file) + 2
    /\ msgs[1].kind = "string"
    /\ msgs[1].type = "file-start"
    /\ msgs[Len(msgs)].kind = "string"
    /\ msgs[Len(msgs)].type = "file-end"
    /\ \A k \in 2..(Len(msgs) - 1) :
          /\ msgs[k].kind = "binary"
          /\ getUint32(slice(msgs[k].bytes, 0, 28), 16) = k - 2

\* C21: when sendFile has succeeded, every peer whose channel was open when
\* the send began (channels do not close here) has been sent one file-start,
\* then every chunk frame in ascending index, then one file-end; while the
\* send runs all these peers have been sent the same messages.
C21_FanOutInOrder ==
    /\ send.pc = "done" =>
          /\ send.peerIds # {}
          /\ \A p \in send.peerIds : WholeFileInOrder(chanOut[p], send.file)
    /\ send.pc \in {"pacing", "done"} =>
          \A p, q \in send.peerIds : chanOut[p] = chanOut[q]

\* A file of several chunks has been sent to two peers.
C21_Witness ==
    /\ send.pc = "done"
    /\ Cardinality(send.peerIds) = 2
    /\ totalChunksOf(send.file) > 1

\* The callbacks of the step just taken.
NewEvents == SubSeq(events', Len(events) + 1, Len(events'))

\* The step just taken was a turn of sendFile's loop, or its end.
SendStep == send' # send /\ send'.pc \in {"pacing", "done"}

\* The callbacks named cb among evs.
Calls(evs, cb) == SelectSeq(evs, LAMBDA e : e.cb = cb)

\* C22: sendFile calls onTransferStart once, before the first chunk; after
\* chunk i (counted from 0) it reports (i + 1) / totalChunks, so the values
\* rise with every chunk and stay within 0..100; onTransferComplete is
\* called once, after the last chunk, whose report was 100.
C22_SenderProgress ==
    [][SendStep =>
          /\ SubSeq(events', 1, Len(events)) = events
          /\ Len(Calls(NewEvents, "onTransferStart"))
                = (IF send.pc = "reading" THEN 1 ELSE 0)
          /\ send.pc = "reading" =>
                NewEvents[1] = Event("onTransferStart", send.fileId)
          /\ send'.pc = "pacing" =>
                /\ send'.i = (IF send.pc = "reading" THEN 0 ELSE send.i + 1)
                /\ Calls(NewEvents, "onFileProgress")
                      = <<Event("onFileProgress",
                                [num |-> (send'.i + 1) * 100,
                                 den |-> totalChunksOf(send.file)])>>
                /\ send'.i + 1 <= totalChunksOf(send.file)
                /\ Last(NewEvents).cb = "onFileProgress"
          /\ send'.pc = "done" =>
                /\ Calls(NewEvents, "onFileProgress") = <<>>
                /\ Calls(NewEvents, "onTransferComplete")
                      = <<Event("onTransferComplete", send.fileId)>>
                /\ Last(NewEvents).cb = "onTransferComplete"
                /\ \/ totalChunksOf(send.file) = 0
                   \/ send.pc = "pacing" /\ send.i + 1 = totalChunksOf(send.file)
    ]_vars

\* A file of three chunks has been sent.
C22_Witness ==
    /\ send.pc = "done"
    /\ totalChunksOf(send.file) = 3
    /\ Fired(events, "onFileProgress", [num |-> 300, den |-> 3]) > 0

\* The progress values reported so far, as fractions num / den of 100.
Progress == Calls(events, "onFileProgress")

\* C23: while the receiver is handed the messages of the inbound transfer,
\* each at most once and in whatever order, the progress values it reports
\* never decrease and never exceed 100, and once every chunk frame of the
\* transfer has arrived, 100 has been reported.
C23_ReceiverProgress ==
    remote.extra = 0 =>
        /\ \A k \in 1..Len(Progress) :
              /\ Progress[k].arg.num >= 0
              /\ Progress[k].arg.num <= 100 * Progress[k].arg.den
        /\ \A k \in 1..(Len(Progress) - 1) :
              Progress[k].arg.num * Progress[k + 1].arg.den
                  <= Progress[k + 1].arg.num * Progress[k].arg.den
        /\ (RemoteTotal >= 1 /\ RemoteFrames \subseteq {rxLog[k] : k \in 1..Len(rxLog)}) =>
              \E k \in 1..Len(Progress) :
                  Progress[k].arg.num = 100 * Progress[k].arg.den

\* C24: while the receiver is handed the messages of the inbound transfer,
\* each at most once and in whatever order, every onTransferComplete it calls
\* for a transfer comes after an onTransferStart for that transfer.
C24_StartBeforeComplete ==
    remote.extra = 0 =>
        \A k \in 1..Len(events) :
            events[k].cb = "onTransferComplete" =>
                \E j \in 1..(k - 1) : events[j] = Event("onTransferStart", events[k].arg)

\* C25: every chunk frame that sendFile has sent declares the size of the
\* whole file, and every file the peer has reassembled from them (handed to
\* onFileReceived, or about to be) has exactly that size.
C25_DeclaredSizeIsFileSize ==
    /\ \A p \in Peers : \A k \in 1..Len(chanOut[p]) :
          chanOut[p][k].kind = "binary" =>
              decodeChunk(chanOut[p][k].bytes).chunk.size = Len(send.file.bytes)
    /\ \A k \in 1..Len(ReassembledFiles) :
          ReassembledFiles[k].size = Len(send.file.bytes)

\* The peer was handed a file of several chunks, the last one short.
C25_Witness ==
    /\ Len(send.file.bytes) = 2 * chunkSize + 1
    /\ \E k \in 1..Len(events) :
          /\ events[k].cb = "onFileReceived"
          /\ events[k].arg.size = 2 * chunkSize + 1

\* C28: the transfer id that the receiver decodes from a chunk frame sent by
\* sendFile is the transfer id of the file-start and of the file-end sent
\* with it.
C28_SameTransferId ==
    \A p \in Peers : \A k \in 1..Len(chanOut[p]) :
        chanOut[p][k].kind = "binary" =>
            /\ decodeChunk(chanOut[p][k].bytes).chunk.id = chanOut[p][1].fileId
            /\ send.pc = "done" =>
                  decodeChunk(chanOut[p][k].bytes).chunk.id = Last(chanOut[p]).fileId

\* The peer has handled every message of a finished sendFile.
AllHandled ==
    /\ send.pc = "done"
    /\ "p1" \in send.peerIds
    /\ remote.taken = Len(chanOut["p1"])

\* C29: once the peer has handled file-start, every chunk frame and file-end
\* of a transfer, it holds no buffer for that transfer.
C29_AssemblyDiscarded ==
    AllHandled => fileChunks = EmptyMap

(* Properties of the signaling messages and of the sessions. *)
\* The answer that the step just taken noted for peer p.
AnswerOf(p) == [type |-> "answer", id |-> Last(sigIn'.log).id]

\* The step just taken completed the setRemoteDescription of an answer that
\* handleAnswer had applied to the connection of peer p.
AnswerSet(p) ==
    /\ sigIn' = sigIn
    /\ p \in DOMAIN peerConnections
    /\ p \in DOMAIN peerConnections'
    /\ peerConnections[p].ops # <<>>
    /\ Head(peerConnections[p].ops).link = "answer:applied"
    /\ peerConnections'[p].id = peerConnections[p].id
    /\ peerConnections'[p].currentRemoteDescription = Head(peerConnections[p].ops).arg
    /\ peerConnections[p].currentRemoteDescription # Head(peerConnections[p].ops).arg

\* C30: an answer for a connection in have-local-offer goes straight to
\* setRemoteDescription, and when that has succeeded the candidate queue of
\* the peer is empty; an answer for a connection in any other state is stored
\* as the pending remote description and the connection is left alone.
C30_AnswerAppliedOrQueued ==
    [][\A p \in Peers :
          /\ (NotedNow("answer", p) /\ Last(sigIn'.log).state = "have-local-offer") =>
                /\ peerConnections'[p] = [peerConnections[p] EXCEPT !.ops =
                      Append(@, Op("setRemoteDescription", AnswerOf(p), "answer:applied"))]
                /\ pendingRemoteDescriptions' = pendingRemoteDescriptions
          /\ (NotedNow("answer", p)
                /\ Last(sigIn'.log).state \notin {"have-local-offer", "none"}) =>
                /\ p \in DOMAIN pendingRemoteDescriptions'
                /\ pendingRemoteDescriptions'[p] = AnswerOf(p)
                /\ peerConnections' = peerConnections
          /\ AnswerSet(p) =>
                /\ p \in DOMAIN pendingIceCandidates'
                /\ pendingIceCandidates'[p] = <<>>
    ]_vars

\* One answer was queued, another was applied and set.
C30_Witness ==
    \E p \in Peers :
        /\ p \in DOMAIN pendingRemoteDescriptions
        /\ pendingRemoteDescriptions[p].type = "answer"
        /\ p \in DOMAIN peerConnections
        /\ peerConnections[p].currentRemoteDescription.type = "answer"
        /\ peerConnections[p].currentRemoteDescription # pendingRemoteDescriptions[p]

\* What the client holds for peer p in the four maps.
SessionOf(pcs, dcs, prd, pic, p) ==
    <<IF p \in DOMAIN pcs THEN <<pcs[p]>> ELSE <<>>,
      IF p \in DOMAIN dcs THEN <<dcs[p]>> ELSE <<>>,
      IF p \in DOMAIN prd THEN <<prd[p]>> ELSE <<>>,
      IF p \in DOMAIN pic THEN <<pic[p]>> ELSE <<>>>>

\* The step just taken changed what the client holds for peer p.
SessionChanged(p) ==
    SessionOf(peerConnections', dataChannels', pendingRemoteDescriptions',
              pendingIceCandidates', p)
        # SessionOf(peerConnections, dataChannels, pendingRemoteDescriptions,
                    pendingIceCandidates, p)

\* C27: a failure or a peer-left of peer p changes nothing of what the client
\* holds for any other peer, and no step but the close of the socket (an
\* operation of a connection that fails or succeeds, a message, a timer)
\* changes the sessions of two peers.
C27_PerPeerIsolation ==
    [][socket' = socket =>
          \A p \in Peers : \A q \in Peers \ {p} :
              /\ (NotedNow("failed", p) \/ NotedNow("peer-left", p)) => ~SessionChanged(q)
              /\ ~(SessionChanged(p) /\ SessionChanged(q))
    ]_vars

\* The connection of one peer failed and was torn down while another peer
\* had a connection.
C27_Witness ==
    /\ sigIn.log # <<>>
    /\ Last(sigIn.log).type = "failed"
    /\ Last(sigIn.log).from \notin DOMAIN peerConnections
    /\ \E q \in Peers \ {Last(sigIn.log).from} :
          /\ q \in DOMAIN peerConnections
          /\ q \in DOMAIN dataChannels

\* C26: every message written to the socket (create-room, join-room, offer,
\* answer, ice-candidate) carries a room id: none is sent with the roomId
\* missing.
C26_RoomIdOnEveryMessage ==
    \A m \in 1..Len(sigOut) : sigOut[m].roomId # ""

\* The step just taken handed a description of peer p to handleOffer or
\* handleAnswer, which queued it.
QueuedNow(p) ==
    /\ NotedNow("offer", p) \/ NotedNow("answer", p)
    /\ peerConnections' = peerConnections
    /\ p \in DOMAIN peerConnections

\* The step just taken completed the setRemoteDescription that
\* applyPendingRemoteDescription had called for peer p.
PendingSet(p) ==
    /\ Completed(p)
    /\ Head(peerConnections[p].ops).link = "pending:applied"
    /\ remoteDescription(peerConnections'[p]) = Head(peerConnections[p].ops).arg

\* C31: one remote description at most is queued for a peer: a description
\* that is queued replaces the one that was, and the description that is
\* applied from the queue is the newest one queued, the one the queue holds
\* when it is applied.
C31_NewestPendingApplied ==
    [][\A p \in Peers :
        /\ QueuedNow(p) =>
              /\ p \in DOMAIN pendingRemoteDescriptions'
              /\ pendingRemoteDescriptions'[p]
                    = [type |-> Last(sigIn'.log).type, id |-> Last(sigIn'.log).id]
        /\ PendingSet(p) =>
              /\ p \in DOMAIN pendingRemoteDescriptions
              /\ pendingRemoteDescriptions[p] = Head(peerConnections[p].ops).arg
    ]_vars

\* The messages of peer p that were handed over, in order.
From(p) == SelectSeq(sigIn.log, LAMBDA e : e.from = p)

\* The connection of peer p was created by handleOffer, for the first message
\* of p, and it is the only one p ever had: p has not left, the connection
\* has not failed.
OfferBorn(p) ==
    /\ p \in DOMAIN peerConnections
    /\ From(p) # <<>>
    /\ From(p)[1].type = "offer"
    /\ \A k \in 1..Len(From(p)) : From(p)[k].type \in {"offer", "answer", "ice-candidate"}

\* The answer to the offer with this id was written to the socket for peer p.
Answered(p, id) ==
    \E j \in 1..Len(sigOut) :
        sigOut[j] = [type |-> "answer", to |-> p, data |-> [type |-> "answer", id |-> id],
                     roomId |-> roomId]

\* C32: a connection created for the offer of an unknown peer has the offer
\* applied first, is never in "have-local-offer" and writes no offer of its
\* own to the socket; what it writes are answers to offers of the peer.
C32_AnswererNeverOffers ==
    \A p \in Peers : OfferBorn(p) =>
        /\ peerConnections[p].signalingState \in {"stable", "have-remote-offer"}
        /\ \A j \in 1..Len(sigOut) : sigOut[j].to = p =>
              /\ sigOut[j].type = "answer"
              /\ \E k \in 1..Len(From(p)) :
                    From(p)[k].type = "offer" /\ sigOut[j].data.id = From(p)[k].id
        /\ remoteDescription(peerConnections[p]) = NoDesc =>
              /\ peerConnections[p].ops # <<>>
              /\ \E k \in 1..Len(peerConnections[p].ops) :
                    /\ peerConnections[p].ops[k]
                          = Op("setRemoteDescription",
                               [type |-> "offer", id |-> From(p)[1].id], "offer:applied")
                    /\ \A j \in 1..(k - 1) : peerConnections[p].ops[j].op = "createOffer"

\* The connection created for an offer is stable again, the offer is its
\* remote description and the answer to it was written to the socket.
C32_Witness ==
    \E p \in Peers :
        /\ OfferBorn(p)
        /\ peerConnections[p].signalingState = "stable"
        /\ peerConnections[p].currentRemoteDescription
              = [type |-> "offer", id |-> From(p)[1].id]
        /\ peerConnections[p].currentLocalDescription.type = "answer"
        /\ Answered(p, From(p)[1].id)

\* The offers written to the socket for peer p.
OffersTo(p) == SelectSeq(sigOut, LAMBDA m : m.type = "offer" /\ m.to = p)

\* The step just taken handed over a new-peer of peer p, who had no
\* connection (known is FALSE) or had one (known is TRUE).
NewPeerNow(p, known) ==
    /\ NotedNow("new-peer", p)
    /\ (Last(sigIn'.log).state # "none") = known

\* C33: a new-peer of a peer without a connection creates one connection with
\* one data channel and one createOffer under way, and leaves the other
\* peers alone; a new-peer of a peer that has a connection creates nothing;
\* a connection writes one offer for its peer in all, once its chain is done.
C33_OneSessionPerNewPeer ==
    [][\A p \in Peers :
        /\ NewPeerNow(p, FALSE) =>
              /\ pcCount' = pcCount + 1
              /\ DOMAIN peerConnections' = DOMAIN peerConnections \cup {p}
              /\ peerConnections'[p] = [newPeerConnection(pcCount') EXCEPT
                    !.ops = <<Op("createOffer", NoDesc, "create:offerCreated")>>]
              /\ DOMAIN dataChannels' = DOMAIN dataChannels \cup {p}
              /\ dataChannels'[p] = "connecting"
              /\ \A q \in Peers \ {p} : ~SessionChanged(q)
              /\ sigOut' = sigOut
        /\ NewPeerNow(p, TRUE) =>
              /\ pcCount' = pcCount
              /\ peerConnections' = peerConnections
              /\ dataChannels' = dataChannels
              /\ sigOut' = sigOut
              /\ events' = events
        /\ (From(p)' # <<>> /\ \A k \in 1..Len(From(p)') : From(p)'[k].type = "new-peer"
              /\ p \in DOMAIN peerConnections') =>
              Len(OffersTo(p)') = IF peerConnections'[p].ops = <<>> THEN 1 ELSE 0
    ]_vars

\* A second new-peer of a peer arrived after the offer of its connection was
\* written, and there is still one offer.
C33_Witness ==
    \E p \in Peers :
        /\ Len(From(p)) = 2
        /\ From(p)[1].type = "new-peer" /\ From(p)[2].type = "new-peer"
        /\ From(p)[2].pc = 1
        /\ p \in DOMAIN peerConnections
        /\ peerConnections[p].id = 1
        /\ Len(OffersTo(p)) = 1

\* C34: the client holds a data channel, a queued remote description or a
\* candidate queue only for a peer it holds a connection for.
C34_AuxiliaryStateHasSession ==
    /\ DOMAIN dataChannels \subseteq DOMAIN peerConnections
    /\ DOMAIN pendingRemoteDescriptions \subseteq DOMAIN peerConnections
    /\ DOMAIN pendingIceCandidates \subseteq DOMAIN peerConnections

\* A peer left whose connection had a queued candidate and a queued
\* description, and nothing is held for it.
C34_Witness ==
    /\ sigIn.log # <<>>
    /\ Last(sigIn.log).type = "peer-left"
    /\ Last(sigIn.log).pc # 0
    /\ Last(sigIn.log).from \notin DOMAIN peerConnections
    /\ \E j, k \in 1..Len(sigIn.log) :
          /\ sigIn.log[j].from = Last(sigIn.log).from
          /\ sigIn.log[k].from = Last(sigIn.log).from
          /\ sigIn.log[j].pc = Last(sigIn.log).pc
          /\ sigIn.log[k].pc = Last(sigIn.log).pc
          /\ sigIn.log[j].type = "ice-candidate" /\ sigIn.log[j].early
          /\ sigIn.log[k].type = "answer" /\ sigIn.log[k].state = "stable"

\* C35: when the peer has handled, in order, file-start, every chunk frame
\* and file-end of a transfer of at least one chunk, its onError has not
\* been called.
C35_NoErrorOnCompleteTransfer ==
    (AllHandled /\ totalChunksOf(send.file) >= 1)
        => Fired(events, "onError", "Failed to reassemble file") = 0

\* The receiver has handled nothing but file-start and chunk frames of the
\* remote transfer, some of them more than once.
OnlyFramesResent ==
    \A k \in 1..Len(rxLog) :
        /\ \E j \in 1..Len(remote.msgs) : rxLog[k] = remote.msgs[j]
        /\ rxLog[k] # Last(remote.msgs)

\* C36: when chunk frames of a transfer arrive more than once, a file is
\* reassembled only once every chunk frame of the transfer has arrived, and
\* its bytes are the bytes sent.
C36_DuplicateNeverCompletes ==
    OnlyFramesResent =>
        \A k \in 1..Len(ReassembledFiles) :
            /\ \A m \in RemoteFrames : \E j \in 1..Len(rxLog) : rxLog[j] = m
            /\ ReassembledFiles[k].blob = remote.file.bytes

\* C37: what a peer's data channel is sent begins with file-start: no chunk
\* frame and no file-end goes to a peer that was not sent the file-start of
\* the transfer.
C37_FileStartFirst ==
    \A p \in Peers :
        chanOut[p] # <<>> =>
            /\ chanOut[p][1].kind = "string"
            /\ chanOut[p][1].type = "file-start"

\* The step just taken was the close event of a socket that this.socket no
\* longer refers to.
StaleClose ==
    /\ socket' = socket
    /\ sockets'.id = sockets.id
    /\ DOMAIN sockets'.detached # DOMAIN sockets.detached
    /\ DOMAIN sockets'.detached \subseteq DOMAIN sockets.detached

\* C38: the close event of a socket that the client has replaced leaves the
\* connections of the peers, made over the socket that replaced it, as they
\* are.
C38_StaleCloseHarmless ==
    [][StaleClose =>
          /\ peerConnections' = peerConnections
          /\ dataChannels' = dataChannels
    ]_vars

\* Peer p has a connection, the first and only one it ever had: it has not
\* left and its connection has not failed.
OnlySession(p) ==
    /\ p \in DOMAIN peerConnections
    /\ \A k \in 1..Len(From(p)) : From(p)[k].type \notin {"peer-left", "failed"}

\* C39: onPeerConnected is called once at most for a peer while its
\* connection lives, be it made for a new-peer or for an offer.
C39_PeerConnectedOnce ==
    \A p \in Peers : OnlySession(p) => Fired(events, "onPeerConnected", p) <= 1

\* The file of the second transfer, of the size its file-start declares.
SecondSent == SecondFile(remote.msgs[FirstLen + 1].fileSize)

\* File f, reassembled by the receiver, is the file sent.
Delivered(f, sent) ==
    /\ f.name = TextDecode(TextEncode(sent.name))
    /\ f.blob = sent.bytes

\* C40: the chunks of two transfers that arrive interleaved are buffered
\* under the id of their own transfer; every file reassembled is one of the
\* two files sent, byte for byte, and once every message has been handled
\* both have been reassembled, each once.
C40_BufferedSeparately ==
    /\ \A key \in DOMAIN fileChunks : \A k \in 1..Len(fileChunks[key]) :
          /\ fileChunks[key][k].id = key
          /\ fileChunks[key][k].name =
                IF key = ChunkKey(remote.fileId)
                THEN TextDecode(TextEncode(remote.file.name))
                ELSE TextDecode(TextEncode(SecondSent.name))
    /\ \A k \in 1..Len(ReassembledFiles) :
          \/ Delivered(ReassembledFiles[k], remote.file)
          \/ Delivered(ReassembledFiles[k], SecondSent)
    /\ remote.pending = {} =>
          /\ Len(ReassembledFiles) = 2
          /\ \E j, k \in 1..2 :
                /\ Delivered(ReassembledFiles[j], remote.file)
                /\ Delivered(ReassembledFiles[k], SecondSent)

\* Two transfers of three chunks each were handled in turns, and both files
\* have been reassembled.
C40_Witness ==
    /\ remote.pending = {}
    /\ FirstLen = 5
    /\ Len(remote.msgs) = 10
    /\ \A k \in 1..5 : rxLog[2 * k - 1] = remote.msgs[k] /\ rxLog[2 * k] = remote.msgs[5 + k]
    /\ Len(ReassembledFiles) = 2

====
